---- MODULE Spec2Model ----
(***************************************************************************)
(* Verification model of the WRLD Relief crisis monitor:                   *)
(*   - SimpleDisasterCache            (api-server/app/cache_manager.py)    *)
(*   - HybridDisasterEngine           (api-server/app/hybrid_search.py)    *)
(*   - DisasterSearchEngine           (api-server/app/ai_search.py)        *)
(*   - the hosted chat agent, v2      (agents/hosted_disaster_agent_v2.py) *)
(* Each subsystem has its own specification (SpecCache, SpecDedup,         *)
(* SpecAgg, SpecSearch, SpecRefresh) over the shared variables; variables a   *)
(* specification does not use keep their initial value in it.              *)
(***************************************************************************)
EXTENDS Integers, Sequences, FiniteSets, TLC

VARIABLES
    clock,          \* int(datetime.now().timestamp()): epoch seconds
    op,             \* the operation the last step performed
    \* ---- SimpleDisasterCache ----
    memory_cache,   \* self.memory_cache: list of DisasterInfo
    last_update,    \* self.last_update: NoTime (None) or a time
    cache_file,     \* data/disasters_cache.json: Absent or the list of dicts
    meta_file,      \* data/cache_meta.json: Absent or MetaDoc
    lastBatch,      \* argument of the most recent update_cache call
    lastAdded,      \* value the most recent update_cache call returned
    repeated,       \* the most recent update_cache call repeated the one before
    prevCache,      \* memory_cache as the first call of a repeated pair left it
    firstCutoff,    \* eviction cutoff the first call of a repeated pair used
    \* ---- _deduplicate_disasters, both engines ----
    dedupIn,        \* the list handed to _deduplicate_disasters
    hybridOut,      \* what HybridDisasterEngine._deduplicate_disasters returned
    legacyOut,      \* what DisasterSearchEngine._deduplicate_disasters returned
    dedupDone,      \* the engines that have run on dedupIn
    \* ---- get_initial_disasters: one collection cycle ----
    aggPc,          \* where HybridDisasterEngine.get_initial_disasters stands
    aggDays,        \* its argument days
    task,           \* per adapter coroutine: created, running or finished
    result,         \* per adapter coroutine: what it delivered
    completed,      \* the adapters in the order in which they finished
    aggWork,        \* unique_disasters, enhanced in place up to aggIdx - 1
    aggIdx,         \* index of the next record to enhance
    aggNow,         \* datetime.now() as the cycle read it (line 83 or 110)
    aggOut,         \* the list the hybrid cycle returned
    aggFailed,      \* the cycle ended in its except branch
    legacyAggOut,   \* what DisasterSearchEngine.get_initial_disasters returned
    legacyAggDone,  \* DisasterSearchEngine.get_initial_disasters has returned
    \* ---- search_disasters: one query ----
    searchPc,       \* where HybridDisasterEngine.search_disasters stands
    max_results,    \* its argument max_results
    legacyPart,     \* what legacy_engine.search_disasters delivered
    legacyFailed,   \* legacy_engine.search_disasters ended in its except branch
    aiPart,         \* what _ai_search_with_query delivered
    searchWork,     \* sorted_disasters[:max_results], enhanced up to searchIdx - 1
    searchIdx,      \* index of the next record to enhance
    searchFailed,   \* the call ended in its except branch
    searchOut,      \* what the call returned
    \* ---- refreshes: hosted agent v2, force_refresh ----
    agentPc,        \* per coroutine of the agent: where it stands
    agent_disaster_cache,  \* the agent's global disaster_cache
    agent_last_update,     \* the agent's global last_update
    intervalDue,    \* the time the interval of periodic_data_refresh elapses
    forcePc,         \* per caller of force_refresh: idle or collecting
    \* ---- search_disasters_by_query: the keyword scorers ----
    scoreImpl,      \* the implementation that was called
    scoreQuery,     \* its argument query
    scoreCorpus,    \* the records it searches (disasters_data, disaster_cache)
    scoreMax,       \* its argument max_results
    scoreOf,        \* the score it gave each record of the corpus, in corpus order
    scoreHits,      \* the list it returned
    scoreDone,       \* the call has returned
    \* ---- SimpleDisasterCache across restarts: save, crash, load, read ----
    cacheProc,      \* the API process: up, or down after a crash
    savedList,      \* <<list>>: the list the last completed cache-file write saved
    getDays,        \* argument days of the last get_disasters call
    getOut,          \* what the last get_disasters call returned
    \* ---- one list of records through the steps after ingestion ----
    pipeEngine,     \* the engine whose steps the list goes through
    pipeStage,      \* the step that comes next
    pipeIn,         \* the records as the adapters created them
    pipeWork,       \* the list the steps hand on; records are changed in place
    pipeIdx,        \* index of the next record to enhance
    pipeCache,       \* memory_cache of the cache the list is merged into
    \* ---- the LLM search adapter (ai_agent.py) ----
    llmKeys,        \* which provider keys the agent was constructed with
    llmPc,          \* position inside the search call
    llmMethod,      \* the public method called
    llmReplies,     \* what the providers answered, in order
    llmResult,       \* what the call returned
    \* ---- earthquake severity (ai_search.py, hosted agents) ----
    sevProps,       \* the properties of the feature read last
    sevLocal,       \* severity the local engine gave it
    sevHosted,       \* severity a hosted agent gave it
    \* ---- location cleaning (data_quality.py) ----
    qualPc,         \* position: idle, cleaned, located
    qualInput,      \* the location given to clean_location
    qualLocation,   \* what clean_location returned
    qualCoords,      \* what get_coordinates returned for it
    \* ---- the API server (main.py) ----
    bootPc,         \* the refresh: idle, collecting, done
    bootCaller,     \* who refreshes: startup or force_refresh
    current_disasters, \* the global list of main.py
    searchIds,      \* the ids POST /api/search returned last
    apiRequest,     \* the last request
    apiResponse,    \* its answer
    uploaderMade,    \* the last request constructed a DisasterUploader
    \* ---- the chat protocol handler ----
    chatPc,         \* position of the handler of each message
    chatIn,         \* the messages received, with their senders
    chatText,       \* response_text of each handler
    outbox,         \* what ctx.send was given, in order
    search_count,    \* global search_count
    \* ---- one call of the coordinate enhancement ----
    enhPc,          \* position of the call
    enhIn,          \* the record given
    enhOut,         \* the record returned
    enhCalls        \* the outbound calls made

cacheVars == <<memory_cache, last_update, cache_file, meta_file,
               lastBatch, lastAdded, repeated, prevCache, firstCutoff>>

dedupVars == <<dedupIn, hybridOut, legacyOut, dedupDone>>

aggVars == <<aggPc, aggDays, task, result, completed, aggWork, aggIdx, aggNow,
             aggOut, aggFailed, legacyAggOut, legacyAggDone>>

searchVars == <<searchPc, max_results, legacyPart, legacyFailed, aiPart,
                searchWork, searchIdx, searchFailed, searchOut>>

refreshVars == <<agentPc, agent_disaster_cache, agent_last_update, intervalDue,
                 forcePc>>

scoreVars == <<scoreImpl, scoreQuery, scoreCorpus, scoreMax, scoreOf, scoreHits, scoreDone>>

persistVars == <<cacheProc, savedList, getDays, getOut>>

pipeVars == <<pipeEngine, pipeStage, pipeIn, pipeWork, pipeIdx, pipeCache>>

llmVars == <<llmKeys, llmPc, llmMethod, llmReplies, llmResult>>

sevVars == <<sevProps, sevLocal, sevHosted>>

qualVars == <<qualPc, qualInput, qualLocation, qualCoords>>

apiVars == <<bootPc, bootCaller, current_disasters, searchIds, apiRequest, apiResponse, uploaderMade>>

chatVars == <<chatPc, chatIn, chatText, outbox, search_count>>

enhVars == <<enhPc, enhIn, enhOut, enhCalls>>

\* The variables of the other subsystems, for each subsystem.
outsideCache == <<dedupVars, aggVars, searchVars, refreshVars, scoreVars, persistVars, pipeVars, llmVars, sevVars, qualVars, apiVars, chatVars, enhVars>>
outsideDedup == <<cacheVars, aggVars, searchVars, refreshVars, scoreVars, persistVars, pipeVars, llmVars, sevVars, qualVars, apiVars, chatVars, enhVars>>
outsideAgg == <<cacheVars, dedupVars, searchVars, refreshVars, scoreVars, persistVars, pipeVars, llmVars, sevVars, qualVars, apiVars, chatVars, enhVars>>
outsideSearch == <<cacheVars, dedupVars, aggVars, refreshVars, scoreVars, persistVars, pipeVars, llmVars, sevVars, qualVars, apiVars, chatVars, enhVars>>
outsideRefresh == <<cacheVars, dedupVars, aggVars, searchVars, scoreVars, persistVars, pipeVars, llmVars, sevVars, qualVars, apiVars, chatVars, enhVars>>
outsideScore == <<cacheVars, dedupVars, aggVars, searchVars, refreshVars, persistVars, pipeVars, llmVars, sevVars, qualVars, apiVars, chatVars, enhVars>>
outsidePersist == <<cacheVars, dedupVars, aggVars, searchVars, refreshVars, scoreVars, pipeVars, llmVars, sevVars, qualVars, apiVars, chatVars, enhVars>>
\* The persistence steps use the variables of the cache as well.
outsideCachePersist == <<dedupVars, aggVars, searchVars, refreshVars, scoreVars, pipeVars, llmVars, sevVars, qualVars, apiVars, chatVars, enhVars>>
\* A forced refresh writes the cache and its own position.
outsideCacheRefresh == <<dedupVars, aggVars, searchVars, scoreVars, persistVars, pipeVars, llmVars, sevVars, qualVars, apiVars, chatVars, enhVars>>
outsidePipe == <<cacheVars, dedupVars, aggVars, searchVars, refreshVars, scoreVars, persistVars, llmVars, sevVars, qualVars, apiVars, chatVars, enhVars>>
outsideLlm == <<cacheVars, dedupVars, aggVars, searchVars, refreshVars, scoreVars, persistVars, pipeVars, sevVars, qualVars, apiVars, chatVars, enhVars>>
outsideSev == <<cacheVars, dedupVars, aggVars, searchVars, refreshVars, scoreVars, persistVars, pipeVars, llmVars, qualVars, apiVars, chatVars, enhVars>>
outsideQual == <<cacheVars, dedupVars, aggVars, searchVars, refreshVars, scoreVars, persistVars, pipeVars, llmVars, sevVars, apiVars, chatVars, enhVars>>
outsideApi == <<cacheVars, dedupVars, aggVars, searchVars, refreshVars, scoreVars, persistVars, pipeVars, llmVars, sevVars, qualVars, chatVars, enhVars>>
\* The refresh of the API server writes the cache as well.
outsideCacheApi == <<dedupVars, aggVars, searchVars, refreshVars, scoreVars, persistVars, pipeVars, llmVars, sevVars, qualVars, chatVars, enhVars>>
outsideChat == <<cacheVars, dedupVars, aggVars, searchVars, refreshVars, scoreVars, persistVars, pipeVars, llmVars, sevVars, qualVars, apiVars, enhVars>>
outsideEnh == <<cacheVars, dedupVars, aggVars, searchVars, refreshVars, scoreVars, persistVars, pipeVars, llmVars, sevVars, qualVars, apiVars, chatVars>>

allButClock == <<cacheVars, dedupVars, aggVars, searchVars, refreshVars, scoreVars, persistVars, pipeVars, llmVars, sevVars, qualVars, apiVars, chatVars, enhVars>>

vars == <<clock, op, allButClock>>

----------------------------------------------------------------------------
(* Values and time *)

\* None, for a time (last_update) and for the coordinates of a record.
NoTime == 0 - 1
NoCoords == [present |-> FALSE, lat |-> 0, lng |-> 0]
\* A file that does not exist, and the documents the two files hold.
\* complete: the file holds a whole JSON document.
Absent ==
    [exists |-> FALSE, complete |-> TRUE, disasters |-> <<>>,
     last_update |-> NoTime]
CacheDoc(dicts) ==
    [exists |-> TRUE, complete |-> TRUE, disasters |-> dicts,
     last_update |-> NoTime]
MetaDoc(t) ==
    [exists |-> TRUE, complete |-> TRUE, disasters |-> <<>>, last_update |-> t]
\* A file that was opened for writing and not written to its end.
Torn ==
    [exists |-> TRUE, complete |-> FALSE, disasters |-> <<>>,
     last_update |-> NoTime]
\* No update_cache call yet: the empty sequence; a call's batch b is <<b>>.
NoBatch == <<>>

SecondsPerDay == 86400
RetentionDays == 7

\* Bounds of the model.
StartDay == 20
MaxTicks == 1
MaxBatch == 2

ClockStart == StartDay * SecondsPerDay + 1

\* hosted_disaster_agent_v2.py line 427 (staleness) and line 579 (interval).
RefreshAge == 3600
RefreshPeriod == 3600

\* int((datetime.now() - timedelta(days=days)).timestamp())
CutoffTimestamp(now, days) == now - days * SecondsPerDay

ZeroCoords == [present |-> TRUE, lat |-> 0, lng |-> 0]

\* DisasterInfo(...): the fields the modelled operations read or write.
DisasterInfo(id, title, location, timestamp, source, coordinates) ==
    [id |-> id, title |-> title, location |-> location, timestamp |-> timestamp,
     source |-> source, coordinates |-> coordinates]

RECURSIVE SelectWhere(_, _)
\* [d for d in s if Keep(d)], with Keep given as the set of kept values.
SelectWhere(s, keep) ==
    IF s = <<>> THEN <<>>
    ELSE IF Head(s) \in keep
         THEN <<Head(s)>> \o SelectWhere(Tail(s), keep)
         ELSE SelectWhere(Tail(s), keep)

Range(s) == {s[i] : i \in DOMAIN s}

IdsOf(s) == {s[i].id : i \in DOMAIN s}

----------------------------------------------------------------------------
(* SimpleDisasterCache *)

Cut0 == CutoffTimestamp(ClockStart, RetentionDays)

QuakeTitle == <<"Q", "u", "a", "k", "e", "s">>
Tokyo == <<"T", "o", "k", "y", "o">>
Osaka == <<"O", "s", "a", "k", "a">>

\* Records offered to update_cache: two ids, timestamps around the cutoff.
CachePool ==
    { DisasterInfo("a", QuakeTitle, Tokyo, Cut0 - 1, "usgs", ZeroCoords),
      DisasterInfo("a", QuakeTitle, Tokyo, Cut0, "usgs", ZeroCoords),
      DisasterInfo("b", QuakeTitle, Tokyo, ClockStart, "news", NoCoords) }

Batches == UNION {[1..n -> CachePool] : n \in 0..MaxBatch}

\* update_cache, lines 56-64: the ids present when the call starts, and the
\* records of the batch whose id is not among them.
NewRecordsNoIdCheck(cache, batch) == batch

NewRecords(cache, batch) ==
    SelectWhere(batch, {d \in Range(batch) : d.id \notin IdsOf(cache)})

\* update_cache, lines 66-74: drop what is older than the retention window.
EvictOldWrongWindow(cache, now) ==
    LET cutoff_timestamp == CutoffTimestamp(now, RetentionDays + 1)
    IN  SelectWhere(cache, {d \in Range(cache) : d.timestamp >= cutoff_timestamp})

EvictOld(cache, now) ==
    LET cutoff_timestamp == CutoffTimestamp(now, RetentionDays)
    IN  SelectWhere(cache, {d \in Range(cache) : d.timestamp >= cutoff_timestamp})

\* asdict(disaster) with the coordinates default of _save_to_file, lines 138-142.
ToDict(d) ==
    IF ~d.coordinates.present THEN [d EXCEPT !.coordinates = ZeroCoords] ELSE d

\* _save_to_file, lines 132-168: the cache document, then the metadata document;
\* an I/O error is caught and logged, and what was written before it stays.
SaveToFile(cache, outcome, now) ==
    /\ cache_file' = IF outcome = "cache_write_fails" THEN cache_file
                     ELSE CacheDoc([i \in DOMAIN cache |-> ToDict(cache[i])])
    /\ meta_file' = IF outcome = "ok"
                    THEN MetaDoc(IF last_update = NoTime THEN now ELSE last_update)
                    ELSE meta_file

\* async def update_cache(self, new_disasters) -> int, lines 53-84, on the
\* cache content the call finds; again: the call repeats the one before.
UpdateCacheOn(cache, batch, outcome, again) ==
    LET new == NewRecords(cache, batch)
        kept == EvictOld(cache \o new, clock)
    IN  /\ memory_cache' = kept
        /\ SaveToFile(kept, outcome, clock)
        /\ last_update' = clock
        /\ lastAdded' = Len(new)
        /\ lastBatch' = <<batch>>
        /\ repeated' = again
        /\ prevCache' = IF again THEN cache ELSE <<>>
        /\ firstCutoff' = IF again
                          THEN CutoffTimestamp(last_update, RetentionDays)
                          ELSE 0

UpdateCache(batch, outcome) ==
    /\ UpdateCacheOn(memory_cache, batch, outcome, <<batch>> = lastBatch)
    /\ op' = "update_cache"
    /\ UNCHANGED <<clock, outsideCache>>

\* A caller (startup_event, force_refresh) hands update_cache a batch; in
\* SpecCache the data directory is writable.
CallUpdateCache ==
    \E batch \in Batches : UpdateCache(batch, "ok")

\* datetime.now() moves on by a second; the model follows the clock for
\* MaxTicks seconds after the start and after every refresh period.
Tick ==
    /\ (clock - ClockStart) % RefreshPeriod < MaxTicks
    /\ clock' = clock + 1
    /\ op' = "tick"
    /\ UNCHANGED allButClock

InitCache ==
    /\ memory_cache = <<>>
    /\ last_update = NoTime
    /\ cache_file = Absent
    /\ meta_file = Absent
    /\ lastBatch = NoBatch
    /\ lastAdded = 0
    /\ repeated = FALSE
    /\ prevCache = <<>>
    /\ firstCutoff = 0

InitDedup ==
    /\ dedupIn = <<>>
    /\ hybridOut = <<>>
    /\ legacyOut = <<>>
    /\ dedupDone = {}

NextCache ==
    \/ CallUpdateCache
    \/ Tick

InWindow(d, now) == d.timestamp >= CutoffTimestamp(now, RetentionDays)

\* C1 (eviction): right after an update_cache call returns, whatever the batch
\* and the prior cache content, no record of the in-memory cache has a
\* timestamp older than the time of the call minus 7 days.
C1_Eviction ==
    op = "update_cache" =>
        \A i \in DOMAIN memory_cache :
            memory_cache[i].timestamp >= clock - RetentionDays * SecondsPerDay

\* C1 witness: the call was given a record older than the window, evicted it,
\* and kept a younger one.
C1_Witness ==
    /\ op = "update_cache"
    /\ \E i \in DOMAIN lastBatch[1] : ~InWindow(lastBatch[1][i], clock)
    /\ memory_cache # <<>>

\* C2 as stated (idempotent ingestion for every list): when update_cache is
\* called twice in succession with the same list, the second call returns 0
\* and the cache holds the same record set as after the first call.
C2_IdempotentEveryList ==
    repeated => (lastAdded = 0 /\ Range(memory_cache) = Range(prevCache))

\* C2 amended: when no record of the list was older than the retention window
\* at the first call, the second call returns 0, and the cache holds the
\* records it held after the first call minus those that have fallen out of
\* the retention window by the second call.
C2_IdempotentInWindow ==
    (repeated /\ \A i \in DOMAIN lastBatch[1] :
                    lastBatch[1][i].timestamp >= firstCutoff)
    => /\ lastAdded = 0
       /\ Range(memory_cache) =
            {d \in Range(prevCache) : InWindow(d, last_update)}

\* C2 witness: a non-empty in-window list was ingested twice in a row, the
\* second call added nothing and the records are still cached.
C2_Witness ==
    /\ repeated
    /\ lastBatch[1] # <<>>
    /\ \A i \in DOMAIN lastBatch[1] : lastBatch[1][i].timestamp >= firstCutoff
    /\ lastAdded = 0
    /\ IdsOf(lastBatch[1]) \subseteq IdsOf(memory_cache)

\* C3 (id uniqueness): after any sequence of update_cache calls on an
\* initially empty cache, no two records of the cache have the same id.
C3_UniqueIds ==
    \A i, j \in DOMAIN memory_cache :
        i # j => memory_cache[i].id # memory_cache[j].id

----------------------------------------------------------------------------
(* _deduplicate_disasters: HybridDisasterEngine and DisasterSearchEngine *)

MinTitleLen == 5
MaxIn == 2

UpperSeq == <<"A", "B", "C", "D", "E", "F", "G", "H", "I", "J", "K", "L", "M",
             "N", "O", "P", "Q", "R", "S", "T", "U", "V", "W", "X", "Y", "Z">>
LowerSeq == <<"a", "b", "c", "d", "e", "f", "g", "h", "i", "j", "k", "l", "m",
             "n", "o", "p", "q", "r", "s", "t", "u", "v", "w", "x", "y", "z">>
DigitChar == <<"0", "1", "2", "3", "4", "5", "6", "7", "8", "9">>

\* str.isalnum(), str.isspace() and the regex class \w on one character.
IsAlnum(c) == c \in Range(LowerSeq) \cup Range(UpperSeq) \cup Range(DigitChar)
IsSpace(c) == c = " "
IsWord(c) == IsAlnum(c) \/ c = "_"

LowerChar(c) ==
    IF c \in Range(UpperSeq)
    THEN LowerSeq[CHOOSE i \in DOMAIN UpperSeq : UpperSeq[i] = c]
    ELSE c

\* str.lower()
Lower(s) == [i \in DOMAIN s |-> LowerChar(s[i])]

RECURSIVE StripLeft(_)
StripLeft(s) ==
    IF s # <<>> /\ IsSpace(Head(s)) THEN StripLeft(Tail(s)) ELSE s

RECURSIVE StripRight(_)
StripRight(s) ==
    IF s # <<>> /\ IsSpace(s[Len(s)]) THEN StripRight(SubSeq(s, 1, Len(s) - 1)) ELSE s

\* str.strip()
Strip(s) == StripRight(StripLeft(s))

RECURSIVE SqueezeSpaces(_)
SqueezeSpaces(s) ==
    IF Len(s) < 2 THEN s
    ELSE IF IsSpace(s[1]) /\ IsSpace(s[2]) THEN SqueezeSpaces(Tail(s))
         ELSE <<Head(s)>> \o SqueezeSpaces(Tail(s))

\* ' '.join(s.split())
JoinSplit(s) == SqueezeSpaces(Strip(s))

RECURSIVE DigitsOf(_)
DigitsOf(n) ==
    IF n < 10 THEN <<DigitChar[n + 1]>>
    ELSE DigitsOf(n \div 10) \o <<DigitChar[(n % 10) + 1]>>

\* datetime.fromtimestamp(ts).strftime('%Y-%m-%d'): a digit string that is the
\* same for two timestamps exactly when they fall on the same calendar day
\* (here the digits of the day number; the hyphens do not survive line 283).
DateKey(ts) == DigitsOf(ts \div SecondsPerDay)

\* hybrid_search.py lines 278-283: the key of one record.
HybridKey(d) ==
    LET title_normalized == Strip(Lower(d.title))
        location_normalized == Strip(Lower(d.location))
        duplicate_key == title_normalized \o <<"_">> \o location_normalized
                         \o <<"_">> \o DateKey(d.timestamp)
    IN  SelectWhere(duplicate_key, {c \in Range(duplicate_key) : IsWord(c)})

\* hybrid_search.py line 285: len(title_normalized) > 5
HybridLongEnough(d) == Len(Strip(Lower(d.title))) > MinTitleLen

RECURSIVE HybridDedupFrom(_, _)
\* hybrid_search.py lines 276-291: the loop, from the records still to visit
\* and the keys seen so far.
HybridDedupFrom(disasters, seen_keys) ==
    IF disasters = <<>> THEN <<>>
    ELSE LET disaster == Head(disasters)
             duplicate_key == HybridKey(disaster)
         IN  IF duplicate_key \notin seen_keys /\ HybridLongEnough(disaster)
             THEN <<disaster>> \o
                  HybridDedupFrom(Tail(disasters), seen_keys \cup {duplicate_key})
             ELSE HybridDedupFrom(Tail(disasters), seen_keys)

\* HybridDisasterEngine._deduplicate_disasters, lines 271-291.
HybridDeduplicate(disasters) == HybridDedupFrom(disasters, {})

\* ai_search.py lines 880-881: re.sub(r'[^\w\s]', '', title.lower()).strip(),
\* then whitespace runs collapsed.
LegacyKey(d) ==
    LET lowered == Lower(d.title)
        stripped == Strip(SelectWhere(lowered,
                        {c \in Range(lowered) : IsWord(c) \/ IsSpace(c)}))
    IN  JoinSplit(stripped)

\* ai_search.py line 883: len(title_key) > 5
LegacyLongEnough(d) == Len(LegacyKey(d)) > MinTitleLen

RECURSIVE LegacyDedupKeepLast(_, _)
LegacyDedupKeepLast(disasters, seen_titles) ==
    IF disasters = <<>> THEN <<>>
    ELSE LET disaster == disasters[Len(disasters)]
             rest == SubSeq(disasters, 1, Len(disasters) - 1)
             title_key == LegacyKey(disaster)
         IN  IF title_key \notin seen_titles /\ LegacyLongEnough(disaster)
             THEN LegacyDedupKeepLast(rest, seen_titles \cup {title_key})
                  \o <<disaster>>
             ELSE LegacyDedupKeepLast(rest, seen_titles)

RECURSIVE LegacyDedupFrom(_, _)
\* ai_search.py lines 878-887: the loop.
LegacyDedupFrom(disasters, seen_titles) ==
    IF disasters = <<>> THEN <<>>
    ELSE LET disaster == Head(disasters)
             title_key == LegacyKey(disaster)
         IN  IF title_key \notin seen_titles /\ LegacyLongEnough(disaster)
             THEN <<disaster>> \o
                  LegacyDedupFrom(Tail(disasters), seen_titles \cup {title_key})
             ELSE LegacyDedupFrom(Tail(disasters), seen_titles)

\* DisasterSearchEngine._deduplicate_disasters, lines 873-887.
LegacyDeduplicate(disasters) == LegacyDedupFrom(disasters, {})

T_quakes_bang == <<"q", "u", "a", "k", "e", "s", "!">>
T_QUAKES_sp == <<" ", "Q", "U", "A", "K", "E", "S", " ">>
T_Quake == <<"Q", "u", "a", "k", "e">>
T_Quake_bang == <<"Q", "u", "a", "k", "e", "!">>
T_Quakes_us == <<"Q", "u", "a", "k", "e", "s", "_">>
Tokyo_sp == <<"t", "o", "k", "y", "o", " ">>

DayTs == ClockStart - 10
DayBeforeTs == ClockStart - SecondsPerDay

\* Records handed to the dedup functions: same title in other case, with
\* punctuation and blanks, at another place, on another day, and short titles.
DedupPool ==
    { DisasterInfo("u1", QuakeTitle, Tokyo, DayTs, "usgs", ZeroCoords),
      DisasterInfo("n1", T_quakes_bang, Tokyo_sp, DayTs, "news", ZeroCoords),
      DisasterInfo("n2", T_QUAKES_sp, Osaka, DayTs, "news", ZeroCoords),
      DisasterInfo("r1", QuakeTitle, Tokyo, DayBeforeTs, "reliefweb", ZeroCoords),
      DisasterInfo("g1", T_Quake, Tokyo, DayTs, "gdacs", ZeroCoords),
      DisasterInfo("g2", T_Quake_bang, Tokyo, DayTs, "gdacs", ZeroCoords),
      DisasterInfo("a1", T_Quakes_us, Tokyo, DayTs, "ai", ZeroCoords) }

DedupInputs == UNION {[1..n -> DedupPool] : n \in 0..MaxIn}

ChooseDedupInput ==
    /\ dedupIn = <<>>
    /\ dedupDone = {}
    /\ \E input \in DedupInputs \ {<<>>} : dedupIn' = input
    /\ op' = "dedup_input"
    /\ UNCHANGED <<clock, outsideDedup, hybridOut, legacyOut, dedupDone>>

RunHybridDedup ==
    /\ dedupIn # <<>>
    /\ "hybrid" \notin dedupDone
    /\ hybridOut' = HybridDeduplicate(dedupIn)
    /\ dedupDone' = dedupDone \cup {"hybrid"}
    /\ op' = "hybrid_dedup"
    /\ UNCHANGED <<clock, outsideDedup, dedupIn, legacyOut>>

RunLegacyDedup ==
    /\ dedupIn # <<>>
    /\ "legacy" \notin dedupDone
    /\ legacyOut' = LegacyDeduplicate(dedupIn)
    /\ dedupDone' = dedupDone \cup {"legacy"}
    /\ op' = "legacy_dedup"
    /\ UNCHANGED <<clock, outsideDedup, dedupIn, hybridOut>>

NextDedup ==
    \/ ChooseDedupInput
    \/ RunHybridDedup
    \/ RunLegacyDedup

\* The title key the claim speaks of: case, punctuation and whitespace ignored
\* (lowercased, alphanumerics only, whitespace collapsed).
NormalTitle(d) ==
    LET lowered == Lower(d.title)
    IN  JoinSplit(SelectWhere(lowered, {c \in Range(lowered) : IsAlnum(c) \/ IsSpace(c)}))

\* C4 as stated, for one engine's output: any two input records whose titles
\* normalize to the same key collapse to exactly one output record, and it is
\* the first of them in input order.
CollapsedByTitle(out) ==
    \A i, j \in DOMAIN dedupIn :
        (i < j /\ NormalTitle(dedupIn[i]) = NormalTitle(dedupIn[j])) =>
            LET same == {k \in DOMAIN dedupIn :
                            NormalTitle(dedupIn[k]) = NormalTitle(dedupIn[i])}
                first == CHOOSE k \in same : \A m \in same : k <= m
            IN  /\ Cardinality({k \in DOMAIN out :
                        NormalTitle(out[k]) = NormalTitle(dedupIn[i])}) = 1
                /\ \E k \in DOMAIN out : out[k] = dedupIn[first]

HybridCollapsedByKey ==
    LET valid == {k \in DOMAIN dedupIn : HybridLongEnough(dedupIn[k])}
    IN  /\ \A i \in valid :
            LET same == {k \in valid : HybridKey(dedupIn[k]) = HybridKey(dedupIn[i])}
                first == CHOOSE k \in same : \A m \in same : k <= m
            IN  /\ Cardinality({k \in DOMAIN hybridOut :
                        HybridKey(hybridOut[k]) = HybridKey(dedupIn[i])}) = 1
                /\ \E k \in DOMAIN hybridOut : hybridOut[k] = dedupIn[first]
        /\ \A k \in DOMAIN hybridOut : \E i \in valid : hybridOut[k] = dedupIn[i]

\* C4 amended, legacy engine: the same with the title-only key.
LegacyCollapsedByKey ==
    LET valid == {k \in DOMAIN dedupIn : LegacyLongEnough(dedupIn[k])}
    IN  /\ \A i \in valid :
            LET same == {k \in valid : LegacyKey(dedupIn[k]) = LegacyKey(dedupIn[i])}
                first == CHOOSE k \in same : \A m \in same : k <= m
            IN  /\ Cardinality({k \in DOMAIN legacyOut :
                        LegacyKey(legacyOut[k]) = LegacyKey(dedupIn[i])}) = 1
                /\ \E k \in DOMAIN legacyOut : legacyOut[k] = dedupIn[first]
        /\ \A k \in DOMAIN legacyOut : \E i \in valid : legacyOut[k] = dedupIn[i]

----------------------------------------------------------------------------
(* HybridDisasterEngine.get_initial_disasters *)

\* The coroutines of one cycle, in the order lines 43-54 create them.
ReliableTasks == <<"usgs", "reliefweb", "gdacs", "news">>
AiTasks == <<"ai">>
Adapters == Range(ReliableTasks) \cup Range(AiTasks)

\* What a coroutine hands to gather: nothing yet, an exception, None, a list.
Pending == [kind |-> "pending", items |-> <<>>]
Raised == [kind |-> "exception", items |-> <<>>]
ReturnedNone == [kind |-> "none", items |-> <<>>]
Returned(items) == [kind |-> "list", items |-> items]

\* A location that is None: the JSON of the AI answer had "location": null
\* (ai_agent.py line 304, item.get returns the null that is there).
NoneStr == <<"None">>
LocationTBD == <<"L", "o", "c", "a", "t", "i", "o", "n", " ", "T", "B", "D">>
UnknownLocation == <<"U", "n", "k", "n", "o", "w", "n", " ",
                     "L", "o", "c", "a", "t", "i", "o", "n">>
Global == <<"G", "l", "o", "b", "a", "l">>
ExtractedCity == <<"K", "o", "b", "e", ",", " ", "J", "a", "p", "a", "n">>

FeedCoords == [present |-> TRUE, lat |-> 35, lng |-> 139]
GeocodedCoords == [present |-> TRUE, lat |-> 34, lng |-> 135]
EstimatedCoords == [present |-> TRUE, lat |-> 36, lng |-> 138]

FloodTitle == <<"F", "l", "o", "o", "d", "s">>
CycloneTitle == <<"C", "y", "c", "l", "o", "n", "e">>

\* The records the adapters deliver. usgs_1, rw_1, news_1 and ai_1 have the
\* same dedup key; usgs_old is older than every window; rw_2 is two days old.
UsgsOld == DisasterInfo("usgs_old", QuakeTitle, Osaka, Cut0 - 1, "USGS", FeedCoords)
Usgs1 == DisasterInfo("usgs_1", QuakeTitle, Tokyo, DayTs, "USGS", FeedCoords)
Rw2 == DisasterInfo("rw_2", FloodTitle, Osaka, ClockStart - 2 * SecondsPerDay,
                    "ReliefWeb", FeedCoords)
Rw1 == DisasterInfo("rw_1", T_QUAKES_sp, Tokyo, DayTs - 10, "ReliefWeb", ZeroCoords)
Gdacs1 == DisasterInfo("gdacs_1", CycloneTitle, Osaka, ClockStart, "GDACS", FeedCoords)
News1 == DisasterInfo("news_1", T_quakes_bang, Tokyo_sp, DayTs + 5, "News", ZeroCoords)
Ai1 == DisasterInfo("ai_1", QuakeTitle, Tokyo, DayTs, "AI-Search", ZeroCoords)
AiNullLocation == DisasterInfo("ai_2", FloodTitle, NoneStr, DayTs, "AI-Search", ZeroCoords)

\* What each adapter can deliver in a cycle.
AdapterOutcomes(a) ==
    CASE a = "usgs" -> {Raised, Returned(<<UsgsOld, Usgs1>>)}
      [] a = "reliefweb" -> {Raised, Returned(<<Rw2, Rw1>>)}
      [] a = "gdacs" -> {Raised, Returned(<<Gdacs1>>)}
      [] a = "news" -> {Raised, Returned(<<News1>>)}
      [] a = "ai" -> {Raised, ReturnedNone, Returned(<<Ai1>>),
                       Returned(<<AiNullLocation>>)}

\* The values of the argument days.
DaysArgs == {1, RetentionDays}

\* asyncio.gather(*tasks, return_exceptions=True), lines 58-59: the results
\* come in the order of the tasks, whatever the order of completion.
ResultOrderAsCompleted(tasks, order) == SelectWhere(order, Range(tasks))

ResultOrder(tasks, order) == tasks

Gather(tasks, res, order) ==
    LET o == ResultOrder(tasks, order) IN [i \in DOMAIN o |-> res[o[i]]]

\* return_exceptions=True: an exception of a task is a result, gather itself
\* does not raise.
GatherRaisesOnException(results) ==
    \E i \in DOMAIN results : results[i].kind = "exception"

GatherRaises(results) == FALSE

RECURSIVE ExtendLists(_)
\* lines 65-70 and 73-80: the results that are lists, concatenated.
ExtendLists(results) ==
    IF results = <<>> THEN <<>>
    ELSE (IF Head(results).kind = "list" THEN Head(results).items ELSE <<>>)
         \o ExtendLists(Tail(results))

\* _convert_ai_to_disaster_info, lines 161-176.
ConvertAiToDisasterInfo(ai_item) ==
    DisasterInfo(ai_item.id, ai_item.title, ai_item.location, ai_item.timestamp,
                 ai_item.source, ai_item.coordinates)

\* lines 62-80
MergeResults(reliable_results, ai_results) ==
    LET ai_items == ExtendLists(ai_results)
    IN  ExtendLists(reliable_results)
        \o [i \in DOMAIN ai_items |-> ConvertAiToDisasterInfo(ai_items[i])]

\* lines 83-89
RecentOf(all_disasters, now, days) ==
    LET cutoff_timestamp == CutoffTimestamp(now, days)
    IN  SelectWhere(all_disasters,
                    {d \in Range(all_disasters) : d.timestamp >= cutoff_timestamp})

\* line 279: disaster.location.lower() on None raises AttributeError.
DedupRaises(disasters) ==
    \E i \in DOMAIN disasters : disasters[i].location = NoneStr

FallbackTitle == <<"H", "y", "b", "r", "i", "d", " ", "S", "y", "s", "t", "e", "m", " ",
                   "M", "o", "n", "i", "t", "o", "r", "i", "n", "g", " ",
                   "A", "c", "t", "i", "v", "e">>

NoFallbackData(now) == <<>>

\* HybridDisasterEngine._get_fallback_data, lines 316-333.
FallbackData(now) ==
    <<DisasterInfo("hybrid_fallback_001", FallbackTitle, Global, now,
                   "Hybrid-System", ZeroCoords)>>

RECURSIVE InsertByTimestampDesc(_, _)
InsertByTimestampDesc(sorted, d) ==
    IF sorted = <<>> THEN <<d>>
    ELSE IF Head(sorted).timestamp >= d.timestamp
         THEN <<Head(sorted)>> \o InsertByTimestampDesc(Tail(sorted), d)
         ELSE <<d>> \o sorted

RECURSIVE SortFrom(_, _)
SortFrom(rest, sorted) ==
    IF rest = <<>> THEN sorted
    ELSE SortFrom(Tail(rest), InsertByTimestampDesc(sorted, Head(rest)))

SortKeepsInputOrder(disasters) == disasters

\* sorted(disasters, key=lambda x: x.timestamp, reverse=True): stable.
SortByTimestampDesc(disasters) == SortFrom(disasters, <<>>)

\* lines 182-184
HasValidCoordinates(d) ==
    d.coordinates.present /\ d.coordinates.lat # 0 /\ d.coordinates.lng # 0

\* What the outbound calls of one enhancement answer.
EnhanceOutcomes ==
    [extract : {"unchanged", "city"}, geocode : {"found", "none", "raises"},
     estimate : {"estimated", "zero"}]

\* _enhance_disaster_with_coordinates, lines 178-212.
EnhanceWithCoordinates(d, ext) ==
    IF HasValidCoordinates(d) THEN d
    ELSE LET location ==
                 IF d.location \in {LocationTBD, UnknownLocation, <<>>}
                    /\ ext.extract = "city"
                 THEN ExtractedCity ELSE d.location
             coordinates ==
                 IF location = LocationTBD THEN d.coordinates
                 ELSE CASE ext.geocode = "found" -> GeocodedCoords
                        [] ext.geocode = "none" ->
                             IF ext.estimate = "estimated"
                             THEN EstimatedCoords ELSE ZeroCoords
                        [] OTHER -> ZeroCoords
         IN  [d EXCEPT !.location = location, !.coordinates = coordinates]

\* DisasterSearchEngine._infer_location_from_title, for the titles of the
\* model, which name no place (ai_search.py lines 703-743).
InferLocationFromTitle(title) == LocationTBD

\* DisasterSearchEngine._enhance_disaster_data, ai_search.py lines 676-690.
LegacyEnhance(d) ==
    IF d.location = UnknownLocation \/ d.location = <<>>
    THEN [d EXCEPT !.location = InferLocationFromTitle(d.title)]
    ELSE d

\* DisasterSearchEngine.get_initial_disasters, ai_search.py lines 125-174,
\* without an OpenAI key: the four feeds in one gather.
LegacyInitialDisasters(res, order, now, days) ==
    LET results == Gather(ReliableTasks, res, order)
        unique_disasters == LegacyDeduplicate(RecentOf(ExtendLists(results), now, days))
        sorted_disasters == SortByTimestampDesc(unique_disasters)
    IN  [i \in DOMAIN sorted_disasters |-> LegacyEnhance(sorted_disasters[i])]

InitAgg ==
    /\ aggPc = "idle"
    /\ aggDays = RetentionDays
    /\ task = [a \in Adapters |-> "none"]
    /\ result = [a \in Adapters |-> Pending]
    /\ completed = <<>>
    /\ aggWork = <<>>
    /\ aggIdx = 1
    /\ aggNow = NoTime
    /\ aggOut = <<>>
    /\ aggFailed = FALSE
    /\ legacyAggOut = <<>>
    /\ legacyAggDone = FALSE

\* lines 43-58: the five coroutine objects are created, and the first gather
\* schedules the four feeds.
StartCollection ==
    /\ aggPc = "idle"
    /\ \E days \in DaysArgs : aggDays' = days
    /\ task' = [a \in Adapters |->
                   IF a \in Range(ReliableTasks) THEN "running" ELSE "created"]
    /\ aggPc' = "gather_reliable"
    /\ op' = "start_collection"
    /\ UNCHANGED <<clock, outsideAgg, result, completed, aggWork, aggIdx, aggNow,
                   aggOut, aggFailed, legacyAggOut, legacyAggDone>>

\* A running adapter coroutine ends, by returning or by raising.
AdapterFinishes ==
    /\ \E a \in Adapters :
        /\ task[a] = "running"
        /\ \E outcome \in AdapterOutcomes(a) :
            result' = [result EXCEPT ![a] = outcome]
        /\ task' = [task EXCEPT ![a] = "finished"]
        /\ completed' = Append(completed, a)
    /\ op' = "adapter_finishes"
    /\ UNCHANGED <<clock, outsideAgg, aggPc, aggDays, aggWork, aggIdx, aggNow,
                   aggOut, aggFailed, legacyAggOut, legacyAggDone>>

\* line 58 returns when the four feeds have finished; line 59 then schedules
\* the AI search.
StartAiGather ==
    /\ aggPc = "gather_reliable"
    /\ \A i \in DOMAIN ReliableTasks : task[ReliableTasks[i]] = "finished"
    /\ task' = [a \in Adapters |->
                   IF a \in Range(AiTasks) THEN "running" ELSE task[a]]
    /\ aggPc' = "gather_ai"
    /\ op' = "start_ai_gather"
    /\ UNCHANGED <<clock, outsideAgg, aggDays, result, completed, aggWork, aggIdx,
                   aggNow, aggOut, aggFailed, legacyAggOut, legacyAggDone>>

\* lines 59-94: the second gather returns, the results are merged, filtered
\* and deduplicated; an exception ends the cycle at lines 109-111.
MergeFilterDedup ==
    /\ aggPc = "gather_ai"
    /\ \A i \in DOMAIN AiTasks : task[AiTasks[i]] = "finished"
    /\ LET reliable_results == Gather(ReliableTasks, result, completed)
           ai_results == Gather(AiTasks, result, completed)
           all_disasters == MergeResults(reliable_results, ai_results)
           recent_disasters == RecentOf(all_disasters, clock, aggDays)
       IN  IF GatherRaises(reliable_results) \/ GatherRaises(ai_results)
              \/ DedupRaises(recent_disasters)
           THEN /\ aggOut' = FallbackData(clock)
                /\ aggFailed' = TRUE
                /\ aggPc' = "done"
                /\ UNCHANGED <<aggWork, aggIdx>>
           ELSE /\ aggWork' = HybridDeduplicate(recent_disasters)
                /\ aggIdx' = 1
                /\ aggPc' = "enhance"
                /\ UNCHANGED <<aggOut, aggFailed>>
    /\ aggNow' = clock
    /\ op' = "merge"
    /\ UNCHANGED <<clock, outsideAgg, aggDays, task, result, completed,
                   legacyAggOut, legacyAggDone>>

\* lines 98-101: one turn of the enhancement loop.
EnhanceNext ==
    /\ aggPc = "enhance"
    /\ aggIdx <= Len(aggWork)
    /\ \E ext \in EnhanceOutcomes :
        aggWork' = [aggWork EXCEPT ![aggIdx] = EnhanceWithCoordinates(@, ext)]
    /\ aggIdx' = aggIdx + 1
    /\ op' = "enhance"
    /\ UNCHANGED <<clock, outsideAgg, aggPc, aggDays, task, result, completed,
                   aggNow, aggOut, aggFailed, legacyAggOut, legacyAggDone>>

\* lines 104-107: sort and return.
ReturnSorted ==
    /\ aggPc = "enhance"
    /\ aggIdx > Len(aggWork)
    /\ aggOut' = SortByTimestampDesc(aggWork)
    /\ aggPc' = "done"
    /\ op' = "return"
    /\ UNCHANGED <<clock, outsideAgg, aggDays, task, result, completed, aggWork,
                   aggIdx, aggNow, aggFailed, legacyAggOut, legacyAggDone>>

\* DisasterSearchEngine.get_initial_disasters on the same feed results.
LegacyCollection ==
    /\ aggPc = "done"
    /\ ~legacyAggDone
    /\ legacyAggOut' = LegacyInitialDisasters(result, completed, aggNow, aggDays)
    /\ legacyAggDone' = TRUE
    /\ op' = "legacy_collection"
    /\ UNCHANGED <<clock, outsideAgg, aggPc, aggDays, task, result, completed,
                   aggWork, aggIdx, aggNow, aggOut, aggFailed>>

NextAgg ==
    \/ StartCollection
    \/ AdapterFinishes
    \/ StartAiGather
    \/ MergeFilterDedup
    \/ EnhanceNext
    \/ ReturnSorted
    \/ LegacyCollection
    \/ Tick

\* The adapters in the order of their coroutines in the two gathers.
TaskOrder == ReliableTasks \o AiTasks

IndexIn(seq, x) == CHOOSE i \in DOMAIN seq : seq[i] = x

Succeeded(a) == result[a].kind = "list"

\* The records the adapters that succeeded delivered inside the window of the
\* cycle, each with its adapter.
DeliveredInWindow ==
    UNION {{[adapter |-> a, rec |-> result[a].items[i]] :
                i \in {k \in DOMAIN result[a].items :
                         result[a].items[k].timestamp
                            >= aggNow - aggDays * SecondsPerDay}} :
           a \in {b \in Adapters : Succeeded(b)}}

IdSeq(s) == [i \in DOMAIN s |-> s[i].id]

\* C5 (aggregation output shape): whatever the adapters delivered, every
\* record get_initial_disasters(days) returned has a timestamp not older than
\* days days before the now the cycle read, and the returned list is ordered
\* by non-increasing timestamp.
C5_WindowAndOrder ==
    aggPc = "done" =>
        /\ \A i \in DOMAIN aggOut :
            aggOut[i].timestamp >= aggNow - aggDays * SecondsPerDay
        /\ \A i, j \in DOMAIN aggOut :
            i < j => aggOut[i].timestamp >= aggOut[j].timestamp

\* C5 witness: a cycle returned at least two records, an adapter had delivered
\* a record older than the window, and the sort changed the order.
C5_Witness ==
    /\ aggPc = "done"
    /\ ~aggFailed
    /\ Len(aggOut) >= 2
    /\ \E a \in Adapters : \E i \in DOMAIN result[a].items :
        result[a].items[i].timestamp < aggNow - aggDays * SecondsPerDay
    /\ IdSeq(aggWork) # IdSeq(aggOut)

\* What the results would be had every adapter that raised returned nothing.
SucceededOnly == [a \in Adapters |-> IF Succeeded(a) THEN result[a] ELSE Returned(<<>>)]

\* The ids a cycle over SucceededOnly returns.
IdsWithoutFailed ==
    LET recent == RecentOf(MergeResults(Gather(ReliableTasks, SucceededOnly, completed),
                                        Gather(AiTasks, SucceededOnly, completed)),
                           aggNow, aggDays)
    IN  IF DedupRaises(recent) THEN IdSeq(FallbackData(aggNow))
        ELSE IdSeq(SortByTimestampDesc(HybridDeduplicate(recent)))

C9_OneConcurrentBatch ==
    \A a, b \in Adapters : ~(task[a] = "created" /\ task[b] = "finished")

\* The adapters that delivered an in-window record with the dedup key of the
\* returned record aggOut[i] (a returned record keeps its id).
Contributors(i) ==
    LET own == CHOOSE d \in DeliveredInWindow : d.rec.id = aggOut[i].id
    IN  {d.adapter : d \in {e \in DeliveredInWindow :
                              HybridKey(e.rec) = HybridKey(own.rec)}}

SourceOf(i) ==
    (CHOOSE d \in DeliveredInWindow : d.rec.id = aggOut[i].id).adapter

\* C10 as stated (tie-break by completion order): among cross-source
\* duplicates the record that survives is the one of the adapter that
\* completed first.
C10_SurvivorByCompletion ==
    (aggPc = "done" /\ ~aggFailed) =>
        \A i \in DOMAIN aggOut :
            \A a \in Contributors(i) :
                IndexIn(completed, SourceOf(i)) <= IndexIn(completed, a)

\* C10 amended: among cross-source duplicates the record that survives is the
\* one of the adapter that comes first in the fixed order of the coroutines
\* (usgs, reliefweb, gdacs, news, ai), whatever the order of completion.
C10_SurvivorByTaskOrder ==
    (aggPc = "done" /\ ~aggFailed) =>
        \A i \in DOMAIN aggOut :
            \A a \in Contributors(i) :
                IndexIn(TaskOrder, SourceOf(i)) <= IndexIn(TaskOrder, a)

\* C10 witness: news finished before usgs, both delivered the same event, and
\* the record of usgs survived.
C10_Witness ==
    /\ aggPc = "done"
    /\ ~aggFailed
    /\ Succeeded("usgs")
    /\ Succeeded("news")
    /\ IndexIn(completed, "news") < IndexIn(completed, "usgs")
    /\ "usgs_1" \in IdsOf(aggOut)
    /\ "news_1" \notin IdsOf(aggOut)

----------------------------------------------------------------------------
(* search_disasters: HybridDisasterEngine and DisasterSearchEngine *)

MaxResults == 2

\* s[:n]
Take(s, n) == SubSeq(s, 1, IF n < Len(s) THEN n ELSE Len(s))

LegacyFallbackTitle == <<"S", "y", "s", "t", "e", "m", " ",
                         "M", "o", "n", "i", "t", "o", "r", "i", "n", "g", " ",
                         "A", "c", "t", "i", "v", "e">>

\* DisasterSearchEngine._get_fallback_data, ai_search.py lines 941-957.
LegacyFallbackData(now) ==
    <<DisasterInfo("fallback_001", LegacyFallbackTitle, Global, now, "System", NoCoords)>>

\* DisasterSearchEngine.search_disasters, ai_search.py lines 176-214, without an
\* OpenAI key: what the call returns, from what its two feeds delivered and
\* from whether a statement of the try body raised.
LegacySearchDisasters(usgs, news, body_raises, limit, now) ==
    IF body_raises THEN LegacyFallbackData(now)
    ELSE LET all_disasters == ExtendLists(<<usgs, news>>)
             sorted_disasters == SortByTimestampDesc(LegacyDeduplicate(all_disasters))
             enhanced_disasters ==
                 [i \in DOMAIN sorted_disasters |-> LegacyEnhance(sorted_disasters[i])]
         IN  Take(enhanced_disasters, limit)

\* _ai_search_with_query, lines 152-159: the converted items of the AI search,
\* or the empty list when the search raised.
AiQueryOutcomes ==
    {Returned(<<>>),
     Returned(<<ConvertAiToDisasterInfo(Ai1)>>),
     Returned(<<ConvertAiToDisasterInfo(AiNullLocation)>>)}

InitSearch ==
    /\ searchPc = "idle"
    /\ max_results = 0
    /\ legacyPart = Pending
    /\ legacyFailed = FALSE
    /\ aiPart = Pending
    /\ searchWork = <<>>
    /\ searchIdx = 1
    /\ searchFailed = FALSE
    /\ searchOut = Pending

\* lines 113-125: the call starts its two component searches.
StartSearch ==
    /\ searchPc = "idle"
    /\ \E n \in 0..MaxResults : max_results' = n
    /\ searchPc' = "gather"
    /\ op' = "start_search"
    /\ UNCHANGED <<clock, outsideSearch, legacyPart, legacyFailed, aiPart,
                   searchWork, searchIdx, searchFailed, searchOut>>

\* The legacy engine's search_disasters(query, max_results // 2) returns.
LegacySearchReturns ==
    /\ searchPc = "gather"
    /\ legacyPart = Pending
    /\ \E usgs \in AdapterOutcomes("usgs"), news \in AdapterOutcomes("news"),
          body_raises \in BOOLEAN :
        /\ legacyPart' = Returned(LegacySearchDisasters(usgs, news, body_raises,
                                                        max_results \div 2, clock))
        /\ legacyFailed' = body_raises
    /\ op' = "legacy_search"
    /\ UNCHANGED <<clock, outsideSearch, searchPc, max_results, aiPart,
                   searchWork, searchIdx, searchFailed, searchOut>>

\* _ai_search_with_query(query, max_results // 2) returns.
AiQueryReturns ==
    /\ searchPc = "gather"
    /\ aiPart = Pending
    /\ \E outcome \in AiQueryOutcomes : aiPart' = outcome
    /\ op' = "ai_query"
    /\ UNCHANGED <<clock, outsideSearch, searchPc, max_results, legacyPart,
                   legacyFailed, searchWork, searchIdx, searchFailed, searchOut>>

\* lines 125-137: gather returns, merge, dedup, sort, cut; an exception ends
\* the call at lines 148-150.
MergeSearch ==
    /\ searchPc = "gather"
    /\ legacyPart # Pending
    /\ aiPart # Pending
    /\ LET all_disasters == ExtendLists(<<legacyPart, aiPart>>)
       IN  IF DedupRaises(all_disasters)
           THEN /\ searchOut' = Returned(FallbackData(clock))
                /\ searchFailed' = TRUE
                /\ searchPc' = "done"
                /\ UNCHANGED <<searchWork, searchIdx>>
           ELSE /\ searchWork' =
                     Take(SortByTimestampDesc(HybridDeduplicate(all_disasters)),
                          max_results)
                /\ searchIdx' = 1
                /\ searchPc' = "enhance"
                /\ UNCHANGED <<searchOut, searchFailed>>
    /\ op' = "merge_search"
    /\ UNCHANGED <<clock, outsideSearch, max_results, legacyPart, legacyFailed, aiPart>>

\* lines 140-143: one turn of the enhancement loop.
EnhanceSearchNext ==
    /\ searchPc = "enhance"
    /\ searchIdx <= Len(searchWork)
    /\ \E ext \in EnhanceOutcomes :
        searchWork' = [searchWork EXCEPT ![searchIdx] = EnhanceWithCoordinates(@, ext)]
    /\ searchIdx' = searchIdx + 1
    /\ op' = "enhance_search"
    /\ UNCHANGED <<clock, outsideSearch, searchPc, max_results, legacyPart,
                   legacyFailed, aiPart, searchFailed, searchOut>>

\* lines 145-146
ReturnSearch ==
    /\ searchPc = "enhance"
    /\ searchIdx > Len(searchWork)
    /\ searchOut' = Returned(searchWork)
    /\ searchPc' = "done"
    /\ op' = "return_search"
    /\ UNCHANGED <<clock, outsideSearch, max_results, legacyPart, legacyFailed,
                   aiPart, searchWork, searchIdx, searchFailed>>

NextSearch ==
    \/ StartSearch
    \/ LegacySearchReturns
    \/ AiQueryReturns
    \/ MergeSearch
    \/ EnhanceSearchNext
    \/ ReturnSearch
    \/ Tick

\* C7 as stated (query-time failure): when an exception occurs while
\* search_disasters of either engine handles a query, the call returns an
\* empty list.
C7_EmptyOnException ==
    /\ (searchPc = "done" /\ searchFailed) => searchOut = Returned(<<>>)
    /\ legacyFailed => legacyPart = Returned(<<>>)

\* C7 amended: when an exception occurs while search_disasters of either
\* engine handles a query, the call returns a list, and the list holds exactly
\* the engine's placeholder record (hybrid_fallback_001, fallback_001) stamped
\* with the current time; nothing propagates.
C7_PlaceholderOnException ==
    /\ (searchPc = "done" /\ searchFailed) =>
        /\ searchOut.kind = "list"
        /\ IdSeq(searchOut.items) = <<"hybrid_fallback_001">>
        /\ searchOut.items[1].timestamp <= clock
        /\ searchOut.items[1].timestamp >= ClockStart
    /\ legacyFailed =>
        /\ legacyPart.kind = "list"
        /\ IdSeq(legacyPart.items) = <<"fallback_001">>
        /\ legacyPart.items[1].timestamp <= clock
        /\ legacyPart.items[1].timestamp >= ClockStart
    /\ searchPc = "done" => searchOut.kind = "list"

\* C7 witness: a hybrid search whose legacy part had failed inside failed
\* itself on a malformed AI item, and has returned.
C7_Witness ==
    /\ searchPc = "done"
    /\ searchFailed
    /\ legacyFailed
    /\ max_results > 0

----------------------------------------------------------------------------
(* Refreshes: the hosted agent v2 and SimpleDisasterCache.force_refresh *)

MaxHours == 1

\* The coroutines of the agent that refresh, and two callers of force_refresh.
AgentTasks == {"startup", "interval", "message"}
ForceCallers == {"caller_1", "caller_2"}

AgentRecord(id, timestamp) == [id |-> id, timestamp |-> timestamp]

\* fetch_simulated_disasters, lines 100-169.
SimulatedDisasters(current_time) ==
    <<AgentRecord("sim_flood_001", current_time - 86400),
      AgentRecord("sim_fire_001", current_time - 172800),
      AgentRecord("sim_hurricane_001", current_time - 259200),
      AgentRecord("sim_conflict_001", current_time - 345600),
      AgentRecord("sim_volcano_001", current_time - 432000)>>

\* fetch_usgs_earthquakes, lines 53-98: the feed answered with an earthquake,
\* or the request failed and the list stayed empty.
UsgsFetchOutcomes == {<<>>, <<AgentRecord("usgs_eq1", DayTs)>>}

\* What get_initial_disasters hands to force_refresh.
FreshOutcomes == {b \in Batches : Len(b) <= 1}

InitRefresh ==
    /\ agentPc = [t \in AgentTasks |->
                    CASE t = "startup" -> "pending"
                      [] t = "interval" -> "sleeping"
                      [] t = "message" -> "idle"]
    /\ agent_disaster_cache = <<>>
    /\ agent_last_update = 0
    /\ intervalDue = ClockStart
    /\ forcePc = [c \in ForceCallers |-> "idle"]

\* startup_handler, lines 322-351, up to the await inside the refresh.
StartupBegins ==
    /\ agentPc["startup"] = "pending"
    /\ agentPc' = [agentPc EXCEPT !["startup"] = "refreshing"]
    /\ op' = "startup"
    /\ UNCHANGED <<clock, outsideRefresh, agent_disaster_cache, agent_last_update,
                   intervalDue, forcePc>>

\* periodic_data_refresh, lines 579-583: the interval has elapsed.
IntervalFires ==
    /\ agentPc["startup"] = "done"
    /\ agentPc["interval"] = "sleeping"
    /\ clock >= intervalDue
    /\ agentPc' = [agentPc EXCEPT !["interval"] = "refreshing"]
    /\ op' = "interval"
    /\ UNCHANGED <<clock, outsideRefresh, agent_disaster_cache, agent_last_update,
                   intervalDue, forcePc>>

\* handle_message and generate_disaster_response up to line 428: the data is
\* refreshed first when it is older than an hour.
MessageArrives ==
    /\ agentPc["startup"] = "done"
    /\ agentPc["message"] = "idle"
    /\ agentPc' = [agentPc EXCEPT !["message"] =
                      IF clock - agent_last_update > RefreshAge
                      THEN "refreshing" ELSE "replying"]
    /\ op' = "message"
    /\ UNCHANGED <<clock, outsideRefresh, agent_disaster_cache, agent_last_update,
                   intervalDue, forcePc>>

\* refresh_disaster_data, lines 353-375, from the answer of the USGS request to
\* the assignments of disaster_cache and last_update.
RefreshCompletes ==
    /\ \E t \in AgentTasks :
        /\ agentPc[t] = "refreshing"
        /\ agentPc' = [agentPc EXCEPT ![t] =
                          CASE t = "startup" -> "done"
                            [] t = "interval" -> "sleeping"
                            [] t = "message" -> "replying"]
        /\ intervalDue' = IF t = "interval" THEN clock + RefreshPeriod ELSE intervalDue
    /\ \E earthquakes \in UsgsFetchOutcomes :
        agent_disaster_cache' = earthquakes \o SimulatedDisasters(clock)
    /\ agent_last_update' = clock
    /\ op' = "refresh_done"
    /\ UNCHANGED <<clock, outsideRefresh, forcePc>>

\* handle_message, lines 403-414: the reply is sent.
SendReply ==
    /\ agentPc["message"] = "replying"
    /\ agentPc' = [agentPc EXCEPT !["message"] = "idle"]
    /\ op' = "reply"
    /\ UNCHANGED <<clock, outsideRefresh, agent_disaster_cache, agent_last_update,
                   intervalDue, forcePc>>

\* A force_refresh that clears the list before it collects.
ClearedBeforeCollection(cache) == <<>>

\* force_refresh, lines 196-200: the list is cleared at line 200, after the
\* await of line 197 has returned; while the collection runs it is as it was.
CacheDuringCollection(cache) == cache

\* force_refresh, lines 189-197: up to the await of get_initial_disasters.
ForceRefreshBegins ==
    /\ \E c \in ForceCallers :
        /\ forcePc[c] = "idle"
        /\ forcePc' = [forcePc EXCEPT ![c] = "collecting"]
    /\ memory_cache' = CacheDuringCollection(memory_cache)
    /\ op' = "force_refresh_begins"
    /\ UNCHANGED <<clock, outsideCacheRefresh, last_update, cache_file,
                   meta_file, lastBatch, lastAdded, repeated, prevCache,
                   firstCutoff, agentPc, agent_disaster_cache,
                   agent_last_update, intervalDue>>

\* force_refresh, lines 197-206: the collection has returned, the cache is
\* cleared and filled by update_cache.
ForceRefreshCompletes ==
    /\ \E c \in ForceCallers :
        /\ forcePc[c] = "collecting"
        /\ forcePc' = [forcePc EXCEPT ![c] = "idle"]
    /\ \E fresh_disasters \in FreshOutcomes :
        UpdateCacheOn(<<>>, fresh_disasters, "ok", FALSE)
    /\ op' = "force_refresh"
    /\ UNCHANGED <<clock, outsideCacheRefresh, agentPc,
                   agent_disaster_cache, agent_last_update, intervalDue>>

\* An hour in which no refresh is under way and the interval is not overdue.
HourPasses ==
    /\ \A t \in AgentTasks : agentPc[t] \in {"done", "sleeping", "idle"}
    /\ \A c \in ForceCallers : forcePc[c] = "idle"
    /\ agentPc["startup"] = "done"
    /\ clock < intervalDue
    /\ (clock - ClockStart) \div RefreshPeriod < MaxHours
    /\ clock' = clock + RefreshPeriod
    /\ op' = "hour"
    /\ UNCHANGED allButClock

NextRefresh ==
    \/ StartupBegins
    \/ IntervalFires
    \/ MessageArrives
    \/ RefreshCompletes
    \/ SendReply
    \/ ForceRefreshBegins
    \/ ForceRefreshCompletes
    \/ HourPasses
    \/ Tick

\* C8 (serialized refresh): at most one refresh of the agent's disaster data
\* is in progress at any time, and at most one force_refresh of the cache.
C8_SerializedRefresh ==
    /\ Cardinality({t \in AgentTasks : agentPc[t] = "refreshing"}) <= 1
    /\ Cardinality({c \in ForceCallers : forcePc[c] = "collecting"}) <= 1

----------------------------------------------------------------------------
(* search_disasters_by_query: the keyword scorers of the dashboard API,      *)
(* the local agent and the hosted agent                                      *)
(* A string is the tuple of its characters; a Hangul character is written    *)
(* by its code point ("U+C9C0").                                             *)

MaxCorpus == 3
MaxHits == 2

Implementations == {"dashboard", "local", "hosted"}

\* needle in hay, for two strings.
Contains(hay, needle) ==
    \E i \in 0..(Len(hay) - Len(needle)) :
        SubSeq(hay, i + 1, i + Len(needle)) = needle

RECURSIVE SplitFrom(_, _, _, _)
SplitFrom(s, i, word, acc) ==
    IF i > Len(s)
    THEN IF word = <<>> THEN acc ELSE Append(acc, word)
    ELSE IF IsSpace(s[i])
         THEN SplitFrom(s, i + 1, <<>>,
                        IF word = <<>> THEN acc ELSE Append(acc, word))
         ELSE SplitFrom(s, i + 1, Append(word, s[i]), acc)

\* str.split()
Split(s) == SplitFrom(s, 1, <<>>, <<>>)

RECURSIVE JoinFrom(_, _)
JoinFrom(words, i) ==
    IF i > Len(words) THEN <<>>
    ELSE IF i = Len(words) THEN words[i]
    ELSE words[i] \o <<" ">> \o JoinFrom(words, i + 1)

\* ' '.join(words)
Join(words) == JoinFrom(words, 1)

RECURSIVE SumFrom(_, _)
SumFrom(s, i) == IF i > Len(s) THEN 0 ELSE s[i] + SumFrom(s, i + 1)

Sum(s) == SumFrom(s, 1)

\* any(word in words for word in query_words), for a list of words.
AnyWordIn(query_words, words) ==
    \E i \in DOMAIN query_words : query_words[i] \in words

\* korean_mappings of the hosted agent, in the order of the dict.
HostedKoreanMappings == <<
    <<<<"U+C9C0", "U+C9C4">>, <<<<"e", "a", "r", "t", "h", "q", "u", "a", "k", "e">>, <<"s", "e", "i", "s", "m", "i", "c">>>>>>,
    <<<<"U+D64D", "U+C218">>, <<<<"f", "l", "o", "o", "d">>, <<"f", "l", "o", "o", "d", "i", "n", "g">>>>>>,
    <<<<"U+C0B0", "U+BD88">>, <<<<"f", "i", "r", "e">>, <<"w", "i", "l", "d", "f", "i", "r", "e">>>>>>,
    <<<<"U+D0DC", "U+D48D">>, <<<<"h", "u", "r", "r", "i", "c", "a", "n", "e">>, <<"t", "y", "p", "h", "o", "o", "n">>, <<"c", "y", "c", "l", "o", "n", "e">>>>>>,
    <<<<"U+D654", "U+C0B0">>, <<<<"v", "o", "l", "c", "a", "n", "o">>, <<"v", "o", "l", "c", "a", "n", "i", "c">>>>>>,
    <<<<"U+BD84", "U+C7C1">>, <<<<"w", "a", "r">>, <<"c", "o", "n", "f", "l", "i", "c", "t">>, <<"a", "t", "t", "a", "c", "k">>>>>>,
    <<<<"U+C7AC", "U+D574">>, <<<<"d", "i", "s", "a", "s", "t", "e", "r">>, <<"e", "m", "e", "r", "g", "e", "n", "c", "y">>>>>>,
    <<<<"U+C7AC", "U+B09C">>, <<<<"d", "i", "s", "a", "s", "t", "e", "r">>, <<"c", "a", "t", "a", "s", "t", "r", "o", "p", "h", "e">>>>>>,
    <<<<"U+C77C", "U+BCF8">>, <<<<"j", "a", "p", "a", "n">>, <<"j", "a", "p", "a", "n", "e", "s", "e">>>>>>,
    <<<<"U+C911", "U+AD6D">>, <<<<"c", "h", "i", "n", "a">>, <<"c", "h", "i", "n", "e", "s", "e">>>>>>,
    <<<<"U+BBF8", "U+AD6D">>, <<<<"u", "s", "a">>, <<"a", "m", "e", "r", "i", "c", "a">>, <<"u", "n", "i", "t", "e", "d", " ", "s", "t", "a", "t", "e", "s">>>>>>,
    <<<<"U+C778", "U+B3C4", "U+B124", "U+C2DC", "U+C544">>, <<<<"i", "n", "d", "o", "n", "e", "s", "i", "a">>, <<"i", "n", "d", "o", "n", "e", "s", "i", "a", "n">>>>>>,
    <<<<"U+D544", "U+B9AC", "U+D540">>, <<<<"p", "h", "i", "l", "i", "p", "p", "i", "n", "e", "s">>, <<"p", "h", "i", "l", "i", "p", "p", "i", "n", "e">>>>>>,
    <<<<"U+BC29", "U+AE00", "U+B77C", "U+B370", "U+C2DC">>, <<<<"b", "a", "n", "g", "l", "a", "d", "e", "s", "h">>>>>>,
    <<<<"U+CD5C", "U+ADFC">>, <<<<"r", "e", "c", "e", "n", "t">>, <<"l", "a", "t", "e", "s", "t">>>>>>,
    <<<<"U+C624", "U+B298">>, <<<<"t", "o", "d", "a", "y">>, <<"c", "u", "r", "r", "e", "n", "t">>>>>>,
    <<<<"U+C5B4", "U+C81C">>, <<<<"y", "e", "s", "t", "e", "r", "d", "a", "y">>>>>>,
    <<<<"U+C2EC", "U+AC01", "U+D55C">>, <<<<"s", "e", "v", "e", "r", "e">>, <<"c", "r", "i", "t", "i", "c", "a", "l">>, <<"m", "a", "j", "o", "r">>>>>>,
    <<<<"U+D070">>, <<<<"l", "a", "r", "g", "e">>, <<"b", "i", "g">>, <<"m", "a", "j", "o", "r">>>>>> >>

\* korean_mappings of the dashboard API.
DashboardKoreanMappings == <<
    <<<<"U+C9C0", "U+C9C4">>, <<<<"e", "a", "r", "t", "h", "q", "u", "a", "k", "e">>, <<"s", "e", "i", "s", "m", "i", "c">>>>>>,
    <<<<"U+D64D", "U+C218">>, <<<<"f", "l", "o", "o", "d">>, <<"f", "l", "o", "o", "d", "i", "n", "g">>>>>>,
    <<<<"U+C0B0", "U+BD88">>, <<<<"f", "i", "r", "e">>, <<"w", "i", "l", "d", "f", "i", "r", "e">>>>>>,
    <<<<"U+D0DC", "U+D48D">>, <<<<"h", "u", "r", "r", "i", "c", "a", "n", "e">>, <<"t", "y", "p", "h", "o", "o", "n">>, <<"c", "y", "c", "l", "o", "n", "e">>>>>>,
    <<<<"U+D654", "U+C0B0">>, <<<<"v", "o", "l", "c", "a", "n", "o">>, <<"v", "o", "l", "c", "a", "n", "i", "c">>>>>>,
    <<<<"U+BD84", "U+C7C1">>, <<<<"w", "a", "r">>, <<"c", "o", "n", "f", "l", "i", "c", "t">>, <<"a", "t", "t", "a", "c", "k">>>>>>,
    <<<<"U+C77C", "U+BCF8">>, <<<<"j", "a", "p", "a", "n">>, <<"j", "a", "p", "a", "n", "e", "s", "e">>>>>>,
    <<<<"U+C911", "U+AD6D">>, <<<<"c", "h", "i", "n", "a">>, <<"c", "h", "i", "n", "e", "s", "e">>>>>>,
    <<<<"U+BBF8", "U+AD6D">>, <<<<"u", "s", "a">>, <<"a", "m", "e", "r", "i", "c", "a">>, <<"u", "n", "i", "t", "e", "d", " ", "s", "t", "a", "t", "e", "s">>>>>>,
    <<<<"U+CD5C", "U+ADFC">>, <<<<"r", "e", "c", "e", "n", "t">>, <<"l", "a", "t", "e", "s", "t">>>>>>,
    <<<<"U+D604", "U+C7AC">>, <<<<"c", "u", "r", "r", "e", "n", "t">>, <<"n", "o", "w">>>>>>,
    <<<<"U+C77C", "U+C5B4", "U+B098", "U+B294">>, <<<<"h", "a", "p", "p", "e", "n", "i", "n", "g">>, <<"o", "c", "c", "u", "r", "r", "i", "n", "g">>>>>> >>

RECURSIVE ExpandFrom(_, _, _)
ExpandFrom(query_lower, i, expanded_query) ==
    IF i > Len(HostedKoreanMappings) THEN expanded_query
    ELSE ExpandFrom(query_lower, i + 1,
            IF Contains(query_lower, HostedKoreanMappings[i][1])
            THEN expanded_query \o <<" ">> \o Join(HostedKoreanMappings[i][2])
            ELSE expanded_query)

\* expanded_query of the hosted agent: the query and, for every Korean key
\* it contains, the English words of the key.
ExpandedQuery(query_lower) == ExpandFrom(query_lower, 1, query_lower)

\* The points a query word earns per field that contains it.
\* Weights that put the description above the location.
FieldWeightsDescriptionFirst(impl) ==
    IF impl = "hosted"
    THEN [title |-> 5, description |-> 4, location |-> 3, category |-> 2]
    ELSE [title |-> 3, description |-> 2, location |-> 1, category |-> 1]

FieldWeights(impl) ==
    IF impl = "hosted"
    THEN [title |-> 5, description |-> 3, location |-> 4, category |-> 2]
    ELSE [title |-> 3, description |-> 2, location |-> 2, category |-> 1]

\* for word in query_words: the basic keyword matching of one record.
WordScore(impl, word, d) ==
    IF impl = "hosted" /\ Len(word) < 2 THEN 0
    ELSE (IF Contains(Lower(d.title), word) THEN FieldWeights(impl).title ELSE 0)
       + (IF Contains(Lower(d.description), word)
          THEN FieldWeights(impl).description ELSE 0)
       + (IF Contains(Lower(d.location), word)
          THEN FieldWeights(impl).location ELSE 0)
       + (IF Contains(Lower(d.category), word)
          THEN FieldWeights(impl).category ELSE 0)

KeywordScore(impl, query_words, d) ==
    Sum([i \in DOMAIN query_words |-> WordScore(impl, query_words[i], d)])

\* The dashboard's Korean block: 5 points per English word of a key of the
\* query that some field contains.
DashboardKoreanScore(query_lower, d) ==
    Sum([i \in DOMAIN DashboardKoreanMappings |->
        IF Contains(query_lower, DashboardKoreanMappings[i][1])
        THEN Sum([j \in DOMAIN DashboardKoreanMappings[i][2] |->
                LET eng_word == DashboardKoreanMappings[i][2][j]
                IN  IF \/ Contains(Lower(d.title), eng_word)
                       \/ Contains(Lower(d.description), eng_word)
                       \/ Contains(Lower(d.location), eng_word)
                       \/ Contains(Lower(d.category), eng_word)
                    THEN 5 ELSE 0])
        ELSE 0])

\* The special keywords of the dashboard and of the local agent: the words
\* that select a category and the category they select.
CategoryKeywords(impl) ==
    IF impl = "local"
    THEN << <<{<<"e", "a", "r", "t", "h", "q", "u", "a", "k", "e">>, <<"s", "e", "i", "s", "m", "i", "c">>, <<"U+C9C0", "U+C9C4">>}, <<"E", "A", "R", "T", "H", "Q", "U", "A", "K", "E">>>>,
            <<{<<"f", "l", "o", "o", "d">>, <<"f", "l", "o", "o", "d", "i", "n", "g">>, <<"U+D64D", "U+C218">>}, <<"F", "L", "O", "O", "D">>>>,
            <<{<<"f", "i", "r", "e">>, <<"w", "i", "l", "d", "f", "i", "r", "e">>, <<"U+C0B0", "U+BD88">>}, <<"W", "I", "L", "D", "F", "I", "R", "E">>>>,
            <<{<<"h", "u", "r", "r", "i", "c", "a", "n", "e">>, <<"t", "y", "p", "h", "o", "o", "n">>, <<"c", "y", "c", "l", "o", "n", "e">>, <<"U+D0DC", "U+D48D">>, <<"U+D5C8", "U+B9AC", "U+CF00", "U+C778">>},
              <<"H", "U", "R", "R", "I", "C", "A", "N", "E">>>>,
            <<{<<"v", "o", "l", "c", "a", "n", "o">>, <<"v", "o", "l", "c", "a", "n", "i", "c">>, <<"U+D654", "U+C0B0">>}, <<"V", "O", "L", "C", "A", "N", "O">>>> >>
    ELSE << <<{<<"e", "a", "r", "t", "h", "q", "u", "a", "k", "e">>, <<"s", "e", "i", "s", "m", "i", "c">>}, <<"E", "A", "R", "T", "H", "Q", "U", "A", "K", "E">>>>,
            <<{<<"f", "l", "o", "o", "d">>, <<"f", "l", "o", "o", "d", "i", "n", "g">>}, <<"F", "L", "O", "O", "D">>>>,
            <<{<<"f", "i", "r", "e">>, <<"w", "i", "l", "d", "f", "i", "r", "e">>}, <<"W", "I", "L", "D", "F", "I", "R", "E">>>>,
            <<{<<"h", "u", "r", "r", "i", "c", "a", "n", "e">>, <<"t", "y", "p", "h", "o", "o", "n">>, <<"c", "y", "c", "l", "o", "n", "e">>}, <<"H", "U", "R", "R", "I", "C", "A", "N", "E">>>>,
            <<{<<"v", "o", "l", "c", "a", "n", "o">>, <<"v", "o", "l", "c", "a", "n", "i", "c">>}, <<"V", "O", "L", "C", "A", "N", "O">>>> >>

ConflictKeywords(impl) ==
    IF impl = "local"
    THEN {<<"w", "a", "r">>, <<"c", "o", "n", "f", "l", "i", "c", "t">>, <<"a", "t", "t", "a", "c", "k">>, <<"U+C804", "U+C7C1">>, <<"U+BD84", "U+C7C1">>}
    ELSE {<<"w", "a", "r">>, <<"c", "o", "n", "f", "l", "i", "c", "t">>, <<"a", "t", "t", "a", "c", "k">>}

\* The conflict bonus: the record is of category OTHER and its description
\* names an attack.
ConflictBonus(impl, query_words, d) ==
    IF /\ AnyWordIn(query_words, ConflictKeywords(impl))
       /\ d.category = <<"O", "T", "H", "E", "R">>
       /\ \E word \in {<<"a", "t", "t", "a", "c", "k">>, <<"k", "i", "l", "l", "e", "d">>, <<"w", "a", "r">>, <<"c", "o", "n", "f", "l", "i", "c", "t">>} :
              Contains(Lower(d.description), word)
    THEN 5 ELSE 0

RegionKeywords(impl) ==
    IF impl = "local"
    THEN << <<{<<"j", "a", "p", "a", "n">>, <<"j", "a", "p", "a", "n", "e", "s", "e">>, <<"U+C77C", "U+BCF8">>}, {<<"j", "a", "p", "a", "n">>}>>,
            <<{<<"c", "h", "i", "n", "a">>, <<"c", "h", "i", "n", "e", "s", "e">>, <<"U+C911", "U+AD6D">>}, {<<"c", "h", "i", "n", "a">>}>>,
            <<{<<"u", "s", "a">>, <<"a", "m", "e", "r", "i", "c", "a">>, <<"u", "n", "i", "t", "e", "d", " ", "s", "t", "a", "t", "e", "s">>, <<"U+BBF8", "U+AD6D">>},
              {<<"u", "n", "i", "t", "e", "d", " ", "s", "t", "a", "t", "e", "s">>, <<"u", "s", "a">>, <<"a", "m", "e", "r", "i", "c", "a">>}>> >>
    ELSE << <<{<<"j", "a", "p", "a", "n">>, <<"j", "a", "p", "a", "n", "e", "s", "e">>}, {<<"j", "a", "p", "a", "n">>}>>,
            <<{<<"c", "h", "i", "n", "a">>, <<"c", "h", "i", "n", "e", "s", "e">>}, {<<"c", "h", "i", "n", "a">>}>>,
            <<{<<"u", "s", "a">>, <<"a", "m", "e", "r", "i", "c", "a">>, <<"u", "n", "i", "t", "e", "d", " ", "s", "t", "a", "t", "e", "s">>},
              {<<"u", "n", "i", "t", "e", "d", " ", "s", "t", "a", "t", "e", "s">>, <<"u", "s", "a">>, <<"a", "m", "e", "r", "i", "c", "a">>}>> >>

SpecialScore(impl, query_words, d) ==
      Sum([i \in DOMAIN CategoryKeywords(impl) |->
            IF /\ AnyWordIn(query_words, CategoryKeywords(impl)[i][1])
               /\ d.category = CategoryKeywords(impl)[i][2]
            THEN 5 ELSE 0])
    + ConflictBonus(impl, query_words, d)
    + Sum([i \in DOMAIN RegionKeywords(impl) |->
            IF /\ AnyWordIn(query_words, RegionKeywords(impl)[i][1])
               /\ \E word \in RegionKeywords(impl)[i][2] :
                      Contains(Lower(d.location), word)
            THEN 4 ELSE 0])

\* The dashboard's bonus for a query that asks for recent events.
DashboardRecentBonus(query_words) ==
    IF AnyWordIn(query_words,
                 {<<"r", "e", "c", "e", "n", "t">>, <<"l", "a", "t", "e", "s", "t">>, <<"c", "u", "r", "r", "e", "n", "t">>, <<"n", "o", "w">>, <<"t", "o", "d", "a", "y">>})
    THEN 2 ELSE 0

\* category_bonuses of the hosted agent.
HostedCategoryBonuses == <<
    <<<<"e", "a", "r", "t", "h", "q", "u", "a", "k", "e">>, <<"E", "A", "R", "T", "H", "Q", "U", "A", "K", "E">>>>, <<<<"s", "e", "i", "s", "m", "i", "c">>, <<"E", "A", "R", "T", "H", "Q", "U", "A", "K", "E">>>>,
    <<<<"f", "l", "o", "o", "d">>, <<"F", "L", "O", "O", "D">>>>, <<<<"f", "l", "o", "o", "d", "i", "n", "g">>, <<"F", "L", "O", "O", "D">>>>,
    <<<<"f", "i", "r", "e">>, <<"W", "I", "L", "D", "F", "I", "R", "E">>>>, <<<<"w", "i", "l", "d", "f", "i", "r", "e">>, <<"W", "I", "L", "D", "F", "I", "R", "E">>>>,
    <<<<"h", "u", "r", "r", "i", "c", "a", "n", "e">>, <<"H", "U", "R", "R", "I", "C", "A", "N", "E">>>>, <<<<"t", "y", "p", "h", "o", "o", "n">>, <<"H", "U", "R", "R", "I", "C", "A", "N", "E">>>>,
    <<<<"c", "y", "c", "l", "o", "n", "e">>, <<"H", "U", "R", "R", "I", "C", "A", "N", "E">>>>,
    <<<<"v", "o", "l", "c", "a", "n", "o">>, <<"V", "O", "L", "C", "A", "N", "O">>>>, <<<<"v", "o", "l", "c", "a", "n", "i", "c">>, <<"V", "O", "L", "C", "A", "N", "O">>>>,
    <<<<"c", "o", "n", "f", "l", "i", "c", "t">>, <<"C", "O", "N", "F", "L", "I", "C", "T">>>>, <<<<"w", "a", "r">>, <<"C", "O", "N", "F", "L", "I", "C", "T">>>>,
    <<<<"a", "t", "t", "a", "c", "k">>, <<"C", "O", "N", "F", "L", "I", "C", "T">>>> >>

\* location_bonuses of the hosted agent.
HostedLocationBonuses == <<
    <<<<"j", "a", "p", "a", "n">>, <<<<"j", "a", "p", "a", "n">>, <<"j", "a", "p", "a", "n", "e", "s", "e">>>>>>,
    <<<<"c", "h", "i", "n", "a">>, <<<<"c", "h", "i", "n", "a">>, <<"c", "h", "i", "n", "e", "s", "e">>>>>>,
    <<<<"u", "s", "a">>, <<<<"u", "n", "i", "t", "e", "d", " ", "s", "t", "a", "t", "e", "s">>, <<"a", "m", "e", "r", "i", "c", "a">>, <<"c", "a", "l", "i", "f", "o", "r", "n", "i", "a">>, <<"t", "e", "x", "a", "s">>>>>>,
    <<<<"i", "n", "d", "o", "n", "e", "s", "i", "a">>, <<<<"i", "n", "d", "o", "n", "e", "s", "i", "a">>, <<"j", "a", "v", "a">>>>>>,
    <<<<"p", "h", "i", "l", "i", "p", "p", "i", "n", "e", "s">>, <<<<"p", "h", "i", "l", "i", "p", "p", "i", "n", "e", "s">>, <<"v", "i", "s", "a", "y", "a", "s">>>>>>,
    <<<<"b", "a", "n", "g", "l", "a", "d", "e", "s", "h">>, <<<<"b", "a", "n", "g", "l", "a", "d", "e", "s", "h">>, <<"s", "y", "l", "h", "e", "t">>>>>> >>

\* severity_bonuses.get(disaster.get('severity', 'LOW'), 0)
SeverityBonus(severity) ==
    CASE severity = <<"C", "R", "I", "T", "I", "C", "A", "L">> -> 4
      [] severity = <<"H", "I", "G", "H">> -> 3
      [] severity = <<"M", "E", "D", "I", "U", "M">> -> 2
      [] severity = <<"L", "O", "W">> -> 1
      [] OTHER -> 0

\* The hosted agent's bonus by the age of the record.
TimeBonus(timestamp, now) ==
    IF now - timestamp <= SecondsPerDay THEN 5
    ELSE IF now - timestamp <= 3 * SecondsPerDay THEN 3
    ELSE IF now - timestamp <= 7 * SecondsPerDay THEN 1
    ELSE 0

\* Lines 248-268: the loop over category_bonuses adds 10 for every keyword
\* found in the expanded query whose category is the record's.
HostedCategoryBonus(expanded_query, d) ==
    Sum([i \in DOMAIN HostedCategoryBonuses |->
          IF /\ Contains(expanded_query, HostedCategoryBonuses[i][1])
             /\ d.category = HostedCategoryBonuses[i][2]
          THEN 10 ELSE 0])

HostedBonuses(expanded_query, query_words, d, now) ==
      HostedCategoryBonus(expanded_query, d)
    + Sum([i \in DOMAIN HostedLocationBonuses |->
            IF Contains(expanded_query, HostedLocationBonuses[i][1])
            THEN Sum([j \in DOMAIN HostedLocationBonuses[i][2] |->
                    IF Contains(Lower(d.location), HostedLocationBonuses[i][2][j])
                    THEN 8 ELSE 0])
            ELSE 0])
    + (IF AnyWordIn(query_words, {<<"s", "e", "v", "e", "r", "e">>, <<"c", "r", "i", "t", "i", "c", "a", "l">>, <<"m", "a", "j", "o", "r">>,
                                  <<"s", "e", "r", "i", "o", "u", "s">>, <<"U+C2EC", "U+AC01", "U+D55C">>, <<"U+D070">>})
       THEN SeverityBonus(d.severity) ELSE 0)
    + (IF AnyWordIn(query_words, {<<"r", "e", "c", "e", "n", "t">>, <<"l", "a", "t", "e", "s", "t">>, <<"t", "o", "d", "a", "y">>,
                                  <<"c", "u", "r", "r", "e", "n", "t">>, <<"U+CD5C", "U+ADFC">>, <<"U+C624", "U+B298">>})
       THEN TimeBonus(d.timestamp, now) ELSE 0)

\* The score search_disasters_by_query gives record d for the query.
Score(impl, query, d, now) ==
    LET query_lower == Lower(query)
    IN  CASE impl = "hosted" ->
               LET expanded_query == ExpandedQuery(query_lower)
                   query_words == Split(expanded_query)
               IN  KeywordScore(impl, query_words, d)
                   + HostedBonuses(expanded_query, query_words, d, now)
          [] impl = "dashboard" ->
               LET query_words == Split(query_lower)
               IN  KeywordScore(impl, query_words, d)
                   + DashboardKoreanScore(query_lower, d)
                   + SpecialScore(impl, query_words, d)
                   + DashboardRecentBonus(query_words)
          [] impl = "local" ->
               LET query_words == Split(query_lower)
               IN  KeywordScore(impl, query_words, d)
                   + SpecialScore(impl, query_words, d)

\* disaster_copy with its search_score, for every record of the corpus the
\* scorer keeps.
Matched(corpus, scores) ==
    LET copies == [i \in DOMAIN corpus |->
                      [disaster |-> corpus[i], search_score |-> scores[i]]]
    IN  SelectWhere(copies, {m \in Range(copies) : m.search_score > 0})

RECURSIVE InsertTiesFirst(_, _)
InsertTiesFirst(sorted, m) ==
    IF sorted = <<>> THEN <<m>>
    ELSE IF Head(sorted).search_score > m.search_score
         THEN <<Head(sorted)>> \o InsertTiesFirst(Tail(sorted), m)
         ELSE <<m>> \o sorted

RECURSIVE InsertByScoreDesc(_, _)
InsertByScoreDesc(sorted, m) ==
    IF sorted = <<>> THEN <<m>>
    ELSE IF Head(sorted).search_score >= m.search_score
         THEN <<Head(sorted)>> \o InsertByScoreDesc(Tail(sorted), m)
         ELSE <<m>> \o sorted

RECURSIVE SortByScoreFrom(_, _, _)
SortByScoreFrom(matched, i, sorted) ==
    IF i > Len(matched) THEN sorted
    ELSE SortByScoreFrom(matched, i + 1, InsertByScoreDesc(sorted, matched[i]))

RECURSIVE SortTiesReversedFrom(_, _, _)
SortTiesReversedFrom(matched, i, sorted) ==
    IF i > Len(matched) THEN sorted
    ELSE SortTiesReversedFrom(matched, i + 1, InsertTiesFirst(sorted, matched[i]))

\* A sort by descending score that is not stable.
SortTiesReversed(matched) == SortTiesReversedFrom(matched, 1, <<>>)

\* matched_disasters.sort(key=search_score, reverse=True): stable.
SortByScoreDesc(matched) == SortByScoreFrom(matched, 1, <<>>)

\* Records of the corpus: the fields the scorers read.
Disaster(id, title, description, location, category, severity, timestamp) ==
    [id |-> id, title |-> title, description |-> description,
     location |-> location, category |-> category, severity |-> severity,
     timestamp |-> timestamp]

AttackTitle == Disaster("t", <<"A", "t", "t", "a", "c", "k">>, <<>>, <<"J", "a", "p", "a", "n">>, <<"O", "T", "H", "E", "R">>, <<"H", "I", "G", "H">>,
                        ClockStart - 10)
AttackDescription == Disaster("d", <<>>, <<"A", "t", "t", "a", "c", "k">>, <<"J", "a", "p", "a", "n">>, <<"O", "T", "H", "E", "R">>,
                              <<"H", "I", "G", "H">>, ClockStart - 10)
Flood1 == Disaster("f1", <<"F", "l", "o", "o", "d", "i", "n", "g">>, <<>>, <<"D", "h", "a", "k", "a">>, <<"F", "L", "O", "O", "D">>, <<"L", "O", "W">>,
                   ClockStart - 2 * SecondsPerDay)
Flood2 == Disaster("f2", <<"F", "l", "o", "o", "d", "i", "n", "g">>, <<>>, <<"D", "h", "a", "k", "a">>, <<"F", "L", "O", "O", "D">>, <<"L", "O", "W">>,
                   ClockStart - 2 * SecondsPerDay)
ScorePool == {AttackTitle, AttackDescription, Flood1, Flood2}

Corpora ==
    UNION {[1..n -> ScorePool] : n \in 0..MaxCorpus}

Queries == {<<"a", "t", "t", "a", "c", "k">>, <<"F", "l", "o", "o", "d", "i", "n", "g", " ", "a">>, <<"U+D64D", "U+C218">>, <<"r", "e", "c", "e", "n", "t", " ", "j", "a", "p", "a", "n">>,
            <<"m", "a", "j", "o", "r">>, <<>>}

InitScore ==
    /\ scoreImpl = "none"
    /\ scoreQuery = <<>>
    /\ scoreCorpus = <<>>
    /\ scoreMax = 0
    /\ scoreOf = <<>>
    /\ scoreHits = <<>>
    /\ scoreDone = FALSE

\* A caller hands a query, a corpus and max_results to one implementation;
\* one call is followed from here to its return.
CallSearchByQuery ==
    /\ scoreImpl = "none"
    /\ \E impl \in Implementations, query \in Queries, corpus \in Corpora,
          limit \in 0..MaxHits :
           /\ scoreImpl' = impl
           /\ scoreQuery' = query
           /\ scoreCorpus' = corpus
           /\ scoreMax' = limit
    /\ op' = "call_search_by_query"
    /\ UNCHANGED <<clock, scoreOf, scoreHits, scoreDone, outsideScore>>

\* search_disasters_by_query, whole: score every record, keep the positive
\* ones, sort, cut.
SearchDisastersByQuery ==
    /\ scoreImpl # "none"
    /\ ~scoreDone
    /\ LET scores == [i \in DOMAIN scoreCorpus |->
                        Score(scoreImpl, scoreQuery, scoreCorpus[i], clock)]
       IN  /\ scoreOf' = scores
           /\ scoreHits' = Take(SortByScoreDesc(Matched(scoreCorpus, scores)),
                                scoreMax)
    /\ scoreDone' = TRUE
    /\ op' = "search_disasters_by_query"
    /\ UNCHANGED <<clock, scoreImpl, scoreQuery, scoreCorpus, scoreMax,
                   outsideScore>>

NextScore ==
    \/ CallSearchByQuery
    \/ SearchDisastersByQuery
    \/ Tick

\* The expanded query holds a keyword mapped to the category of d.
CategoryKeywordIn(expanded_query, d) ==
    \E i \in DOMAIN HostedCategoryBonuses :
        /\ Contains(expanded_query, HostedCategoryBonuses[i][1])
        /\ d.category = HostedCategoryBonuses[i][2]

\* C30: in the hosted agents the category-keyword bonus inside a record's
\* score is 10 when the expanded query holds at least one keyword mapped to
\* the record's category, however many of them it holds, and 0 otherwise.
C30_FixedCategoryBonus ==
    (op = "search_disasters_by_query" /\ scoreImpl = "hosted") =>
        \A i \in DOMAIN scoreCorpus :
            LET d == scoreCorpus[i]
                expanded_query == ExpandedQuery(Lower(scoreQuery))
                query_words == Split(expanded_query)
                others == KeywordScore("hosted", query_words, d)
                              + HostedBonuses(expanded_query, query_words, d,
                                              clock)
                              - HostedCategoryBonus(expanded_query, d)
            IN  scoreOf[i] - others
                    = (IF CategoryKeywordIn(expanded_query, d) THEN 10 ELSE 0)

\* The positions of the corpus whose record scored above 0.
Positive == {i \in DOMAIN scoreCorpus : scoreOf[i] > 0}

\* Position i ranks before position j: higher score, or equal score and
\* earlier in the corpus.
RanksBefore(i, j) ==
    \/ scoreOf[i] > scoreOf[j]
    \/ scoreOf[i] = scoreOf[j] /\ i < j

PositionAtRank(k) ==
    CHOOSE i \in Positive :
        Cardinality({j \in Positive : RanksBefore(j, i)}) = k - 1

\* C11 (ranked retrieval): the call returns exactly the first max_results
\* of the records that scored above 0, by descending score with ties in
\* corpus order, each with its score; no record that scored 0 is returned.
C11_RankedRetrieval ==
    scoreDone =>
        /\ Len(scoreHits) = IF scoreMax < Cardinality(Positive)
                            THEN scoreMax ELSE Cardinality(Positive)
        /\ \A k \in DOMAIN scoreHits :
              /\ scoreHits[k].disaster = scoreCorpus[PositionAtRank(k)]
              /\ scoreHits[k].search_score = scoreOf[PositionAtRank(k)]
              /\ scoreHits[k].search_score > 0

\* A call that had to drop a record that scored 0, to keep two distinct
\* records of equal score in corpus order, and to cut the list.
C11_Witness ==
    /\ scoreDone
    /\ \E i, j, z \in DOMAIN scoreCorpus :
          /\ i < j
          /\ scoreOf[i] > 0
          /\ scoreOf[i] = scoreOf[j]
          /\ scoreCorpus[i] # scoreCorpus[j]
          /\ scoreOf[z] = 0
          /\ scoreMax = 1
          /\ scoreHits = <<[disaster |-> scoreCorpus[i],
                            search_score |-> scoreOf[i]]>>

\* C12 (weight ordering, as stated): in the implementation that ran, the
\* weights of a query word are strictly ordered
\* title > location > description > category.
C12_StrictWeightOrdering ==
    scoreImpl # "none" =>
        /\ FieldWeights(scoreImpl).title > FieldWeights(scoreImpl).location
        /\ FieldWeights(scoreImpl).location
              > FieldWeights(scoreImpl).description
        /\ FieldWeights(scoreImpl).description
              > FieldWeights(scoreImpl).category

\* C12 (weight ordering, amended): in every implementation the title weighs
\* most and the category least, and the location weighs at least as much
\* as the description; the hosted agent orders all four strictly.
C12_WeightOrdering ==
    scoreImpl # "none" =>
        /\ FieldWeights(scoreImpl).title > FieldWeights(scoreImpl).location
        /\ FieldWeights(scoreImpl).location
              >= FieldWeights(scoreImpl).description
        /\ FieldWeights(scoreImpl).description
              > FieldWeights(scoreImpl).category
        /\ scoreImpl = "hosted" =>
              FieldWeights(scoreImpl).location
                  > FieldWeights(scoreImpl).description

\* The local agent scored a record with weights that give the location and
\* the description the same points.
C12_Witness ==
    /\ scoreDone
    /\ scoreImpl = "local"
    /\ FieldWeights(scoreImpl).location = FieldWeights(scoreImpl).description
    /\ \E i \in DOMAIN scoreCorpus : scoreOf[i] > 0

\* Record a has the word in its title and not in its description, record b
\* has it in its description and not in its title, and the two agree in
\* every other field the scorers read.
TitleTwin(a, b, word) ==
    /\ Contains(Lower(a.title), word)
    /\ ~Contains(Lower(a.description), word)
    /\ Contains(Lower(b.description), word)
    /\ ~Contains(Lower(b.title), word)
    /\ a.location = b.location
    /\ a.category = b.category
    /\ a.severity = b.severity
    /\ a.timestamp = b.timestamp

\* C13 (scoring monotonicity): for a word of the query of length >= 2, a
\* record with the word in its title and not in its description scores
\* strictly higher than its twin with the word in the description.
C13_ScoringMonotonicity ==
    scoreDone =>
        \A i, j \in DOMAIN scoreCorpus :
            \A word \in Range(Split(Lower(scoreQuery))) :
                (Len(word) >= 2
                 /\ TitleTwin(scoreCorpus[i], scoreCorpus[j], word))
                    => scoreOf[i] > scoreOf[j]

----------------------------------------------------------------------------
(* SimpleDisasterCache across restarts of the API process:                   *)
(* _save_to_file, _load_from_file, initialize, get_disasters                 *)

\* The points of _save_to_file at which the process can die with a file
\* open: writing the cache file (line 151), between the two files, writing
\* the metadata file (line 161).
CrashPoints == {"writing_cache", "before_meta", "writing_meta"}

\* _load_from_file, lines 97-109: the coordinates of a loaded item.
FromDict(item) ==
    IF item.coordinates.present THEN item
    ELSE [item EXCEPT !.coordinates = ZeroCoords]

\* A load that drops the last item of the document.
LoadedListDropsLast(doc) ==
    [i \in 1..(Len(doc.disasters) - 1) |-> FromDict(doc.disasters[i])]

\* _load_from_file, lines 94-109: the list built from the cache document.
LoadedList(doc) == [i \in DOMAIN doc.disasters |-> FromDict(doc.disasters[i])]

\* _load_from_file, lines 86-130, as the values it leaves in memory_cache
\* and last_update: a file that does not parse raises inside the try, and
\* the except branch empties the list.
LoadFromFile ==
    /\ memory_cache' =
          IF cache_file.exists /\ cache_file.complete
             /\ (meta_file.exists => meta_file.complete)
          THEN LoadedList(cache_file)
          ELSE <<>>
    /\ last_update' =
          IF cache_file.exists /\ cache_file.complete
             /\ meta_file.exists /\ meta_file.complete
          THEN meta_file.last_update
          ELSE last_update

\* get_disasters without its filter.
FilteredAll(cache, days, now) == cache

\* get_disasters, lines 42-49: the records inside the window.
Filtered(cache, days, now) ==
    SelectWhere(cache, {d \in Range(cache) :
                          d.timestamp >= CutoffTimestamp(now, days)})

\* The batches the restarts are followed with: those of Batches of at most
\* two records, oldest first.
PersistBatches ==
    {b \in Batches :
        /\ Len(b) <= 2
        /\ \A i, j \in DOMAIN b : i < j => b[i].timestamp < b[j].timestamp}

InitPersist ==
    /\ cacheProc = "up"
    /\ savedList = <<>>
    /\ getDays = 0
    /\ getOut = <<>>

\* update_cache called by the startup event or by a refresh, with both files
\* written to their end.
PersistUpdateCache ==
    /\ cacheProc = "up"
    /\ \E batch \in PersistBatches :
          UpdateCacheOn(memory_cache, batch, "ok", FALSE)
    /\ savedList' = <<memory_cache'>>
    /\ op' = "update_cache"
    /\ UNCHANGED <<clock, cacheProc, getDays, getOut, outsideCachePersist>>

\* update_cache whose _save_to_file is cut short by the death of the
\* process: open(..., 'w') has truncated the file that was being written.
CrashInSave ==
    /\ cacheProc = "up"
    /\ \E batch \in PersistBatches, point \in CrashPoints :
          LET kept == EvictOld(memory_cache \o NewRecords(memory_cache, batch),
                               clock)
          IN  /\ cache_file' =
                    IF point = "writing_cache" THEN Torn
                    ELSE CacheDoc([i \in DOMAIN kept |-> ToDict(kept[i])])
              /\ meta_file' =
                    IF point = "writing_meta" THEN Torn ELSE meta_file
              /\ savedList' =
                    IF point = "writing_cache" THEN <<>> ELSE <<kept>>
    /\ cacheProc' = "down"
    /\ memory_cache' = <<>>
    /\ last_update' = NoTime
    /\ op' = "crash_in_save"
    /\ UNCHANGED <<clock, lastBatch, lastAdded, repeated, prevCache,
                   firstCutoff, getDays, getOut, outsideCachePersist>>

\* The process starts (again): SimpleDisasterCache() and initialize().
Initialize ==
    /\ cacheProc' = "up"
    /\ LoadFromFile
    /\ op' = "initialize"
    /\ UNCHANGED <<clock, cache_file, meta_file, lastBatch, lastAdded,
                   repeated, prevCache, firstCutoff, savedList, getDays,
                   getOut, outsideCachePersist>>

\* async def get_disasters(self, days=7), lines 37-51.
GetDisasters ==
    /\ cacheProc = "up"
    /\ \E days \in DaysArgs :
          /\ getDays' = days
          /\ IF memory_cache = <<>>
             THEN LoadFromFile
             ELSE UNCHANGED <<memory_cache, last_update>>
          /\ getOut' = SortByTimestampDesc(Filtered(memory_cache', days, clock))
    /\ op' = "get_disasters"
    /\ UNCHANGED <<clock, cache_file, meta_file, lastBatch, lastAdded,
                   repeated, prevCache, firstCutoff, savedList, cacheProc,
                   outsideCachePersist>>

NextPersist ==
    \/ PersistUpdateCache
    \/ CrashInSave
    \/ Initialize
    \/ GetDisasters
    \/ Tick

\* The records of the list s that are equal to d.
CountIn(s, d) == Cardinality({i \in DOMAIN s : s[i] = d})

\* C14 (cache round-trip, as stated): the list a restart loads is the list
\* the last save wrote, field for field and in the same order.
C14_RoundTripIdentity ==
    (op = "initialize" /\ savedList # <<>> /\ meta_file.complete)
        => memory_cache = savedList[1]

\* C14 (cache round-trip, amended): the list a restart loads has the records
\* of the saved list in the same order, each equal to the saved record field
\* for field except that absent coordinates come back as latitude 0,
\* longitude 0.
C14_RoundTrip ==
    (op = "initialize" /\ savedList # <<>> /\ meta_file.complete)
        => /\ Len(memory_cache) = Len(savedList[1])
           /\ \A i \in DOMAIN memory_cache :
                 /\ memory_cache[i].coordinates =
                       IF savedList[1][i].coordinates.present
                       THEN savedList[1][i].coordinates
                       ELSE [present |-> TRUE, lat |-> 0, lng |-> 0]
                 /\ [memory_cache[i] EXCEPT !.coordinates = NoCoords]
                       = [savedList[1][i] EXCEPT !.coordinates = NoCoords]

\* A restart loaded a saved list of two records, one of them saved without
\* coordinates.
C14_Witness ==
    /\ op = "initialize"
    /\ savedList # <<>>
    /\ meta_file.complete
    /\ Len(memory_cache) = 2
    /\ \E i \in DOMAIN savedList[1] : ~savedList[1][i].coordinates.present
    /\ \E i \in DOMAIN savedList[1] : savedList[1][i].coordinates.present

\* C15 (crash-safe persistence): whatever happens during _save_to_file, the
\* files on disk hold whole documents, never a truncated or partial one.
C15_CrashSafe ==
    /\ cache_file.complete
    /\ meta_file.complete

\* C16 (cache read): get_disasters(days) returns exactly the cached records
\* with timestamp >= now - days, by non-increasing timestamp, and leaves a
\* non-empty in-memory cache and last_update as they were.
C16_CacheRead ==
    [][op' = "get_disasters" =>
        /\ \A d \in Range(memory_cache') \cup Range(getOut') :
              CountIn(getOut', d) =
                  IF d.timestamp >= clock - getDays' * SecondsPerDay
                  THEN CountIn(memory_cache', d) ELSE 0
        /\ \A i, j \in DOMAIN getOut' :
              i < j => getOut'[i].timestamp >= getOut'[j].timestamp
        /\ memory_cache # <<>> =>
              /\ memory_cache' = memory_cache
              /\ last_update' = last_update]_vars

\* A read of an in-memory cache of two records, older first, that returned
\* them newest first, or returned only the one inside the window.
C16_Witness ==
    /\ op = "get_disasters"
    /\ Len(memory_cache) = 2
    /\ memory_cache[1].timestamp < memory_cache[2].timestamp
    /\ \/ getOut = <<memory_cache[2], memory_cache[1]>>
       \/ getOut = <<memory_cache[2]>>

----------------------------------------------------------------------------
(* The steps a record goes through after an adapter created it:              *)
(* deduplication, enhancement, sort, cache merge, save and load              *)

MaxPipe == 2

\* A DisasterInfo with the fields the backfill reads and writes; obj is the
\* identity of the Python object, which the steps mutate in place.
\* affected_people 0 and damage_estimate <<>> are the falsy values (None, 0,
\* '') the backfill tests for.
PipeRecord(obj, d, severity, category, affected_people) ==
    [obj |-> obj, id |-> d.id, title |-> d.title, location |-> d.location,
     timestamp |-> d.timestamp, source |-> d.source,
     coordinates |-> d.coordinates, severity |-> severity,
     category |-> category, affected_people |-> affected_people,
     damage_estimate |-> <<>>]

\* _estimate_damage, ai_search.py lines 783-792.
EstimateDamage(severity) ==
    CASE severity = "CRITICAL" -> <<"O", "v", "e", "r", " ", "$", "1", " ", "b", "i", "l", "l", "i", "o", "n">>
      [] severity = "HIGH" -> <<"$", "1", "0", "0", " ", "m", "i", "l", "l", "i", "o", "n", " ", "-", " ", "$", "1", " ", "b", "i", "l", "l", "i", "o", "n">>
      [] severity = "MEDIUM" -> <<"$", "1", "0", " ", "m", "i", "l", "l", "i", "o", "n", " ", "-", " ", "$", "1", "0", "0", " ", "m", "i", "l", "l", "i", "o", "n">>
      [] OTHER -> <<"U", "n", "d", "e", "r", " ", "$", "1", "0", " ", "m", "i", "l", "l", "i", "o", "n">>

\* _estimate_people_from_severity, ai_search.py lines 794-803.
EstimatePeopleFromSeverity(severity) ==
    CASE severity = "CRITICAL" -> 100000
      [] severity = "HIGH" -> 50000
      [] severity = "MEDIUM" -> 10000
      [] OTHER -> 1000

\* A backfill that derives the category again.
EnhanceDisasterDataRecategorizes(d) ==
    [LegacyEnhance(d) EXCEPT !.category = "OTHER"]

\* DisasterSearchEngine._enhance_disaster_data, ai_search.py lines 676-690:
\* location, then damage estimate, then affected people.
EnhanceDisasterData(d) ==
    LET located == LegacyEnhance(d)
        damaged == IF located.damage_estimate = <<>>
                   THEN [located EXCEPT !.damage_estimate =
                                            EstimateDamage(located.severity)]
                   ELSE located
    IN  IF damaged.affected_people = 0
        THEN [damaged EXCEPT !.affected_people =
                                 EstimatePeopleFromSeverity(damaged.severity)]
        ELSE damaged

\* What the adapters hand to the steps: an earthquake of the USGS feed, a
\* news item with the same title up to case and punctuation, a report
\* without a location, and a report as old as the retention window.
PipePool ==
    { <<Usgs1, "HIGH", "EARTHQUAKE", 0>>,
      <<News1, "LOW", "EARTHQUAKE", 1200>>,
      <<DisasterInfo("rw_3", FloodTitle, UnknownLocation, DayTs + 20,
                     "ReliefWeb", NoCoords), "MEDIUM", "FLOOD", 0>>,
      <<DisasterInfo("gdacs_2", CycloneTitle, Osaka, Cut0, "GDACS",
                     ZeroCoords), "CRITICAL", "HURRICANE", 0>> }

PipeInputs ==
    UNION {[1..n -> PipePool] : n \in 1..MaxPipe}

InitPipe ==
    /\ pipeEngine = "none"
    /\ pipeStage = "idle"
    /\ pipeIn = <<>>
    /\ pipeWork = <<>>
    /\ pipeIdx = 1
    /\ pipeCache = <<>>

\* The adapters of one engine deliver their records.
PipeIngest ==
    /\ pipeStage = "idle"
    /\ \E engine \in {"hybrid", "legacy"}, input \in PipeInputs :
          /\ pipeEngine' = engine
          /\ pipeIn' = [i \in DOMAIN input |->
                           PipeRecord(i, input[i][1], input[i][2],
                                      input[i][3], input[i][4])]
    /\ pipeWork' = pipeIn'
    /\ pipeStage' = "dedup"
    /\ op' = "ingest"
    /\ UNCHANGED <<clock, pipeIdx, pipeCache, outsidePipe>>

\* _deduplicate_disasters of the engine.
PipeDedup ==
    /\ pipeStage = "dedup"
    /\ pipeWork' = IF pipeEngine = "hybrid"
                   THEN HybridDeduplicate(pipeWork)
                   ELSE LegacyDeduplicate(pipeWork)
    /\ pipeStage' = IF pipeEngine = "hybrid" THEN "enhance" ELSE "sort"
    /\ pipeIdx' = 1
    /\ op' = "dedup"
    /\ UNCHANGED <<clock, pipeEngine, pipeIn, pipeCache, outsidePipe>>

\* hybrid_search.py lines 98-101: one record through
\* _enhance_disaster_with_coordinates.
PipeEnhance ==
    /\ pipeStage = "enhance"
    /\ pipeIdx <= Len(pipeWork)
    /\ \E ext \in EnhanceOutcomes :
          pipeWork' = [pipeWork EXCEPT
                          ![pipeIdx] = EnhanceWithCoordinates(@, ext)]
    /\ pipeIdx' = pipeIdx + 1
    /\ op' = "enhance"
    /\ UNCHANGED <<clock, pipeEngine, pipeStage, pipeIn, pipeCache,
                   outsidePipe>>

\* hybrid_search.py line 104, ai_search.py line 164: sort newest first.
PipeSort ==
    /\ \/ pipeStage = "enhance" /\ pipeIdx > Len(pipeWork)
       \/ pipeStage = "sort"
    /\ pipeWork' = SortByTimestampDesc(pipeWork)
    /\ pipeStage' = IF pipeEngine = "hybrid" THEN "merge" ELSE "backfill"
    /\ op' = "sort"
    /\ UNCHANGED <<clock, pipeEngine, pipeIn, pipeIdx, pipeCache, outsidePipe>>

\* ai_search.py line 167: every record through _enhance_disaster_data.
PipeBackfill ==
    /\ pipeStage = "backfill"
    /\ pipeWork' = [i \in DOMAIN pipeWork |-> EnhanceDisasterData(pipeWork[i])]
    /\ pipeStage' = "merge"
    /\ op' = "backfill"
    /\ UNCHANGED <<clock, pipeEngine, pipeIn, pipeIdx, pipeCache, outsidePipe>>

\* update_cache, cache_manager.py lines 53-74: merge and evict.
PipeCacheMerge ==
    /\ pipeStage = "merge"
    /\ pipeCache' = EvictOld(pipeCache \o NewRecords(pipeCache, pipeWork), clock)
    /\ pipeStage' = "save"
    /\ op' = "cache_merge"
    /\ UNCHANGED <<clock, pipeEngine, pipeIn, pipeWork, pipeIdx, outsidePipe>>

\* _save_to_file and, after a restart, _load_from_file.
PipeSaveAndLoad ==
    /\ pipeStage = "save"
    /\ pipeCache' = LoadedList(CacheDoc([i \in DOMAIN pipeCache |->
                                            ToDict(pipeCache[i])]))
    /\ pipeStage' = "done"
    /\ op' = "save_and_load"
    /\ UNCHANGED <<clock, pipeEngine, pipeIn, pipeWork, pipeIdx, outsidePipe>>

NextPipe ==
    \/ PipeIngest
    \/ PipeDedup
    \/ PipeEnhance
    \/ PipeSort
    \/ PipeBackfill
    \/ PipeCacheMerge
    \/ PipeSaveAndLoad
    \/ Tick

\* Record r holds the id, timestamp and category its adapter gave it.
KeepsIdentity(r) ==
    /\ r.id = pipeIn[r.obj].id
    /\ r.timestamp = pipeIn[r.obj].timestamp
    /\ r.category = pipeIn[r.obj].category

\* C17 (immutable identity fields): after every step, every record that is
\* still in the list or in the cache has the id, the timestamp and the
\* category its adapter created it with.
C17_IdentityFieldsKept ==
    /\ \A i \in DOMAIN pipeWork : KeepsIdentity(pipeWork[i])
    /\ \A i \in DOMAIN pipeCache : KeepsIdentity(pipeCache[i])

\* A list went through every step of the legacy engine, and a record of it
\* came back from the cache file with its location, damage estimate,
\* affected people and coordinates changed on the way.
C17_Witness ==
    /\ pipeStage = "done"
    /\ pipeEngine = "legacy"
    /\ \E i \in DOMAIN pipeCache :
          /\ pipeCache[i].location # pipeIn[pipeCache[i].obj].location
          /\ pipeCache[i].damage_estimate # <<>>
          /\ pipeCache[i].affected_people # 0
          /\ pipeCache[i].coordinates # pipeIn[pipeCache[i].obj].coordinates

----------------------------------------------------------------------------
(* The LLM search adapter: AISearchAgent of ai_agent.py                      *)

\* The text a provider answers with, as a sequence of tokens: a run of
\* prose, an opening bracket, a closing bracket, a JSON object or a JSON
\* scalar.  An object carries its title (<<>> when the key is missing or
\* empty) and what its "coordinates" key holds: "valid" (a dict with
\* non-zero lat and lng), "zero" (a dict with a zero), "null", or "text" (a
\* string).
Tok(tok, title, coordinates) ==
    [tok |-> tok, title |-> title, coordinates |-> coordinates]

ProseTok == Tok("prose", <<>>, "null")
OpenTok == Tok("[", <<>>, "null")
CloseTok == Tok("]", <<>>, "null")
ScalarTok == Tok("scalar", <<>>, "null")
ObjectTok(title, coordinates) == Tok("object", title, coordinates)

\* content.find('['): the first index of the token, -1 when there is none
\* (indexes from 0 as in Python).
Find(content, tok) ==
    IF \E i \in DOMAIN content : content[i].tok = tok
    THEN (CHOOSE i \in DOMAIN content :
              /\ content[i].tok = tok
              /\ \A j \in 1..(i - 1) : content[j].tok # tok) - 1
    ELSE -1

\* content.rfind(']').
RFind(content, tok) ==
    IF \E i \in DOMAIN content : content[i].tok = tok
    THEN (CHOOSE i \in DOMAIN content :
              /\ content[i].tok = tok
              /\ \A j \in (i + 1)..Len(content) : content[j].tok # tok) - 1
    ELSE -1

\* content[start:end] of Python, for 0 <= start.
Slice(content, start, end) ==
    IF end <= start THEN <<>> ELSE SubSeq(content, start + 1, end)

\* json.loads of a slice that begins with '[': the elements of the array,
\* or a JSONDecodeError when the slice is not one array of objects and
\* scalars.
JsonDecodeError == [ok |-> FALSE, data |-> <<>>]

JsonLoads(json_str) ==
    IF /\ Len(json_str) >= 2
       /\ json_str[1].tok = "["
       /\ json_str[Len(json_str)].tok = "]"
       /\ \A i \in 2..(Len(json_str) - 1) :
              json_str[i].tok \in {"object", "scalar"}
    THEN [ok |-> TRUE, data |-> SubSeq(json_str, 2, Len(json_str) - 1)]
    ELSE JsonDecodeError

\* The dict _parse_ai_response builds of one item, lines 301-313.
AiDisaster(item) ==
    [id |-> <<"ai_">> \o item.title, title |-> item.title,
     coordinates |-> item.coordinates]

RECURSIVE ProcessedFrom(_, _)
ProcessedFrom(data, i) ==
    IF i > Len(data) THEN <<>>
    ELSE IF data[i].tok = "object" /\ data[i].title # <<>>
         THEN <<AiDisaster(data[i])>> \o ProcessedFrom(data, i + 1)
         ELSE ProcessedFrom(data, i + 1)

\* A parser that takes the text between any two brackets for the array.
ParseAiResponseLenient(content) ==
    ProcessedFrom(SelectSeq(content, LAMBDA t : t.tok = "object"), 1)

\* AISearchAgent._parse_ai_response, lines 281-323.
ParseAiResponse(content) ==
    LET start == Find(content, "[")
        end == RFind(content, "]") + 1
    IN  IF start # -1 /\ end # 0
        THEN LET disasters_data == JsonLoads(Slice(content, start, end))
             IN  IF disasters_data.ok
                 THEN ProcessedFrom(disasters_data.data, 1)
                 ELSE <<>>
        ELSE <<>>

\* What the geocoder and the coordinate estimate can do.
GeoOutcomes == {"found", "nothing", "raises"}
EstimateOutcomes == {"estimated", "raises"}

\* AISearchAgent._enhance_with_coordinates, lines 350-379, of a disaster
\* whose coordinates are not a string.  A location of 'Location TBD' skips
\* the geocoder, which leaves the same paths as a geocoder finding nothing.
AiEnhanceWithCoordinates(disaster, geo, est, openai_api_key) ==
    IF disaster.coordinates = "valid" THEN disaster
    ELSE IF geo = "found"
         THEN [disaster EXCEPT !.coordinates = "geocoded"]
         ELSE IF openai_api_key
              THEN [disaster EXCEPT !.coordinates =
                       IF est = "estimated" THEN "estimated" ELSE "zero"]
              ELSE disaster

\* What a provider's HTTP call does: it raises, or it answers with a status
\* and a body.
RaisesReply == [kind |-> "raises", status |-> 0, content |-> <<>>]
Answer(status, content) ==
    [kind |-> "answer", status |-> status, content |-> content]

\* _search_with_perplexity, lines 163-200, and _search_with_openai_batch,
\* lines 202-239: the same body for either provider.  coords.get of a
\* string raises an AttributeError, which the except branch logs and raises
\* again; a status other than 200 leaves the function at its end, which
\* returns None.
SearchWithProvider(reply, geo, est, openai_api_key) ==
    IF reply.kind = "raises" THEN Raised
    ELSE IF reply.status = 200
         THEN LET disasters == ParseAiResponse(reply.content)
              IN  IF \E i \in DOMAIN disasters :
                         disasters[i].coordinates = "text"
                  THEN Raised
                  ELSE Returned([i \in DOMAIN disasters |->
                           AiEnhanceWithCoordinates(disasters[i], geo, est,
                                                    openai_api_key)])
         ELSE ReturnedNone

\* The bodies the providers answer with: prose only; an array in prose; an
\* array with an object without title and a scalar; prose in brackets; a
\* bracketed note before the array; a closing bracket before the opening
\* one; an empty array; an array cut off before its end; coordinates given
\* as a string; coordinates of zero.
LlmContents ==
    { <<ProseTok>>,
      <<ProseTok, OpenTok, ObjectTok(FloodTitle, "valid"), CloseTok,
        ProseTok>>,
      <<OpenTok, ObjectTok(QuakeTitle, "null"), ObjectTok(<<>>, "valid"),
        ScalarTok, CloseTok>>,
      <<OpenTok, ProseTok, CloseTok>>,
      <<OpenTok, ProseTok, CloseTok, ProseTok, OpenTok,
        ObjectTok(FloodTitle, "valid"), CloseTok>>,
      <<CloseTok, ProseTok, OpenTok>>,
      <<OpenTok, CloseTok>>,
      <<OpenTok, ObjectTok(FloodTitle, "valid")>>,
      <<OpenTok, ObjectTok(FloodTitle, "text"), CloseTok>>,
      <<OpenTok, ObjectTok(QuakeTitle, "zero"), CloseTok>> }

LlmReplies ==
    {RaisesReply} \cup
    {Answer(status, content) : status \in {200, 429, 500},
                               content \in LlmContents}

NoKeys == [perplexity |-> FALSE, openai |-> FALSE]

InitLlm ==
    /\ llmKeys = NoKeys
    /\ llmPc = "new"
    /\ llmMethod = "none"
    /\ llmReplies = <<>>
    /\ llmResult = Pending

\* AISearchAgent.__init__, lines 20-22: the keys of the environment.
LlmConstruct ==
    /\ llmPc = "new"
    /\ \E perplexity \in BOOLEAN, openai \in BOOLEAN :
          llmKeys' = [perplexity |-> perplexity, openai |-> openai]
    /\ llmPc' = "idle"
    /\ op' = "construct"
    /\ UNCHANGED <<clock, llmMethod, llmReplies, llmResult, outsideLlm>>

\* search_global_disasters_7days and search_with_query are called; both go
\* through the same two attempts (_batch_ai_search_optimized, lines 147-161,
\* _search_with_ai, lines 265-279).
LlmCall ==
    /\ llmPc = "idle"
    /\ llmMethod = "none"
    /\ \E method \in {"search_global_disasters_7days", "search_with_query"} :
          llmMethod' = method
    /\ llmPc' = "perplexity"
    /\ op' = "call"
    /\ UNCHANGED <<clock, llmKeys, llmReplies, llmResult, outsideLlm>>

\* Lines 148-152: the Perplexity attempt; what the provider function
\* returns is returned, an exception is logged and the flow goes on.
TryPerplexity ==
    /\ llmPc = "perplexity"
    /\ IF llmKeys.perplexity
       THEN \E reply \in LlmReplies, geo \in GeoOutcomes,
               est \in EstimateOutcomes :
               LET out == SearchWithProvider(reply, geo, est, llmKeys.openai)
               IN  /\ llmReplies' = Append(llmReplies, reply)
                   /\ IF out = Raised
                      THEN llmPc' = "openai" /\ UNCHANGED llmResult
                      ELSE llmPc' = "done" /\ llmResult' = out
       ELSE llmPc' = "openai" /\ UNCHANGED <<llmReplies, llmResult>>
    /\ op' = "perplexity"
    /\ UNCHANGED <<clock, llmKeys, llmMethod, outsideLlm>>

\* Lines 155-159: the OpenAI attempt.
TryOpenai ==
    /\ llmPc = "openai"
    /\ IF llmKeys.openai
       THEN \E reply \in LlmReplies, geo \in GeoOutcomes,
               est \in EstimateOutcomes :
               LET out == SearchWithProvider(reply, geo, est, llmKeys.openai)
               IN  /\ llmReplies' = Append(llmReplies, reply)
                   /\ IF out = Raised
                      THEN llmPc' = "end" /\ UNCHANGED llmResult
                      ELSE llmPc' = "done" /\ llmResult' = out
       ELSE llmPc' = "end" /\ UNCHANGED <<llmReplies, llmResult>>
    /\ op' = "openai"
    /\ UNCHANGED <<clock, llmKeys, llmMethod, outsideLlm>>

\* Line 161: return [].
ReturnEmpty ==
    /\ llmPc = "end"
    /\ llmResult' = Returned(<<>>)
    /\ llmPc' = "done"
    /\ op' = "return_empty"
    /\ UNCHANGED <<clock, llmKeys, llmMethod, llmReplies, outsideLlm>>

NextLlm ==
    \/ LlmConstruct
    \/ LlmCall
    \/ TryPerplexity
    \/ TryOpenai
    \/ ReturnEmpty

\* The provider call raised, answered with a status other than 200, or
\* answered with text without a parseable JSON array.
ProviderFailed(reply) ==
    \/ reply.kind = "raises"
    \/ reply.status # 200
    \/ LET start == Find(reply.content, "[")
           end == RFind(reply.content, "]") + 1
       IN  \/ start = -1
           \/ end = 0
           \/ ~JsonLoads(Slice(reply.content, start, end)).ok

\* C18: search_global_disasters_7days and search_with_query return a list
\* in every outcome, and the empty list when every provider call raised,
\* answered with a status other than 200 or answered with text without a
\* parseable JSON array.  (No state holds a propagated exception: the
\* result is written only by a return.)
C18_DegradesToEmpty ==
    llmPc = "done" =>
        /\ llmResult.kind = "list"
        /\ (\A i \in DOMAIN llmReplies : ProviderFailed(llmReplies[i]))
               => llmResult.items = <<>>

\* The provider has been called: the replies are kept in the order of the
\* calls, and Perplexity is called first when its key is configured.
Tried(provider) ==
    IF provider = "perplexity"
    THEN llmKeys.perplexity /\ Len(llmReplies) >= 1
    ELSE llmKeys.openai
             /\ Len(llmReplies) >= (IF llmKeys.perplexity THEN 2 ELSE 1)

\* C26: Perplexity is tried first when its key is configured; OpenAI is
\* tried whenever its key is configured and the Perplexity attempt did not
\* produce a result list; the adapter ends without a result list only after
\* every configured provider has been tried.
C26_ProviderFallback ==
    llmPc = "done" =>
        /\ llmKeys.perplexity => Tried("perplexity")
        /\ (llmKeys.openai /\ ~Tried("openai")) =>
               (Tried("perplexity") /\ llmResult.kind = "list")
        /\ llmResult.kind # "list" =>
               /\ llmKeys.perplexity => Tried("perplexity")
               /\ llmKeys.openai => Tried("openai")

----------------------------------------------------------------------------
(* Earthquake magnitude to severity: ai_search.py and the hosted agents      *)

\* Magnitudes are counted in hundredths: 7.0 is 700.  The feeds give
\* magnitudes with up to two decimals.
MinMagnitude == 380
MaxMagnitude == 820

CriticalMagnitude == 700
HighMagnitude == 600
MediumMagnitude == 500

\* The properties of a GeoJSON feature: the magnitude, or no 'mag' key.
NoMag == [has_mag |-> FALSE, mag |-> 0]
Mag(m) == [has_mag |-> TRUE, mag |-> m]

\* props.get('mag', 0)
PropsGetMag(props) == IF props.has_mag THEN props.mag ELSE 0

\* A mapping whose boundaries go to the lower tier.
GetEarthquakeSeverityExclusive(magnitude) ==
    IF magnitude > CriticalMagnitude THEN "CRITICAL"
    ELSE IF magnitude > HighMagnitude THEN "HIGH"
    ELSE IF magnitude > MediumMagnitude THEN "MEDIUM"
    ELSE "LOW"

\* DisasterSearchEngine._get_earthquake_severity, ai_search.py lines 851-860.
GetEarthquakeSeverity(magnitude) ==
    IF magnitude >= CriticalMagnitude THEN "CRITICAL"
    ELSE IF magnitude >= HighMagnitude THEN "HIGH"
    ELSE IF magnitude >= MediumMagnitude THEN "MEDIUM"
    ELSE "LOW"

\* fetch_usgs_earthquakes of hosted_disaster_agent_v2.py, lines 68-76, and
\* of hosted_disaster_agent.py, lines 108-116: the mapping written inline.
HostedSeverity(props) ==
    LET magnitude == PropsGetMag(props)
    IN  IF magnitude >= CriticalMagnitude THEN "CRITICAL"
        ELSE IF magnitude >= HighMagnitude THEN "HIGH"
        ELSE IF magnitude >= MediumMagnitude THEN "MEDIUM"
        ELSE "LOW"

Features == {NoMag} \cup {Mag(m) : m \in MinMagnitude..MaxMagnitude}

InitSev ==
    /\ sevProps = NoMag
    /\ sevLocal = "none"
    /\ sevHosted = "none"

\* One feature of the USGS feed is read by the local engine (ai_search.py
\* line 239) and by a hosted agent.
ReadFeature ==
    /\ \E props \in Features :
          /\ sevProps' = props
          /\ sevLocal' = GetEarthquakeSeverity(PropsGetMag(props))
          /\ sevHosted' = HostedSeverity(props)
    /\ op' = "read_feature"
    /\ UNCHANGED <<clock, outsideSev>>

NextSev == ReadFeature

\* C19: the severity of a magnitude m is CRITICAL for m >= 7.0, HIGH for
\* 6.0 <= m < 7.0, MEDIUM for 5.0 <= m < 6.0 and LOW otherwise, and the
\* hosted agents' inline mapping gives the same severity.
C19_MagnitudeToSeverity ==
    sevLocal # "none" =>
        LET m == PropsGetMag(sevProps)
        IN  /\ (sevLocal = "CRITICAL") <=> (m >= 700)
            /\ (sevLocal = "HIGH") <=> (600 <= m /\ m < 700)
            /\ (sevLocal = "MEDIUM") <=> (500 <= m /\ m < 600)
            /\ (sevLocal = "LOW") <=> (m < 500)
            /\ sevLocal \in {"CRITICAL", "HIGH", "MEDIUM", "LOW"}
            /\ sevHosted = sevLocal

\* A magnitude of exactly 6.0 was read and both mappings said HIGH.
C19_Witness ==
    /\ sevProps = Mag(600)
    /\ sevLocal = "HIGH"
    /\ sevHosted = "HIGH"

----------------------------------------------------------------------------
(* Location cleaning and the coordinate lookup: data_quality.py              *)

MinLocationLen == 3
MaxLocationLen == 100

IsLetter(c) == c \in Range(LowerSeq) \cup Range(UpperSeq)
IsUpper(c) == c \in Range(UpperSeq)
IsDigit(c) == c \in Range(DigitChar)

\* str.startswith
StartsWith(s, prefix) ==
    Len(s) >= Len(prefix) /\ SubSeq(s, 1, Len(prefix)) = prefix

\* The number of characters of one class at the start of s.  Under
\* re.IGNORECASE the classes [A-Z] and [a-z] both hold every letter.
InClass(c, class) ==
    CASE class = "letter" -> IsLetter(c)
      [] class = "digit" -> IsDigit(c)
      [] class = "space" -> IsSpace(c)

RECURSIVE RunOf(_, _)
RunOf(s, class) ==
    IF s # <<>> /\ InClass(Head(s), class)
    THEN 1 + RunOf(Tail(s), class)
    ELSE 0

Drop(s, n) == SubSeq(s, n + 1, Len(s))

\* invalid_location_patterns, lines 78-88.  Each pattern is an optional
\* lead ("word": [A-Z][a-z]+\s+, "digits": \d+\s+), a list of alternatives,
\* and whether \s+ has to follow the alternative.
Pattern(lead, words, then_space) ==
    [lead |-> lead, words |-> words, then_space |-> then_space]

InvalidLocationPatterns ==
    << Pattern("none", {<<"H", "o", "w", "e", "v", "e", "r">>, <<"M", "e", "a", "n", "w", "h", "i", "l", "e">>, <<"A", "c", "c", "o", "r", "d", "i", "n", "g">>, <<"T", "h", "e">>,
                        <<"A">>, <<"A", "n">>, <<"T", "h", "i", "s">>, <<"T", "h", "a", "t">>, <<"I", "t">>, <<"H", "e">>,
                        <<"S", "h", "e">>, <<"T", "h", "e", "y">>}, TRUE),
       Pattern("none", {<<"J", "a", "n", "u", "a", "r", "y">>, <<"F", "e", "b", "r", "u", "a", "r", "y">>, <<"M", "a", "r", "c", "h">>, <<"A", "p", "r", "i", "l">>,
                        <<"M", "a", "y">>, <<"J", "u", "n", "e">>, <<"J", "u", "l", "y">>, <<"A", "u", "g", "u", "s", "t">>,
                        <<"S", "e", "p", "t", "e", "m", "b", "e", "r">>, <<"O", "c", "t", "o", "b", "e", "r">>, <<"N", "o", "v", "e", "m", "b", "e", "r">>,
                        <<"D", "e", "c", "e", "m", "b", "e", "r">>}, FALSE),
       Pattern("word", {<<"s", "a", "i", "d">>, <<"r", "e", "p", "o", "r", "t", "e", "d">>, <<"a", "n", "n", "o", "u", "n", "c", "e", "d">>, <<"s", "t", "a", "t", "e", "d">>,
                        <<"d", "e", "c", "l", "a", "r", "e", "d">>, <<"c", "o", "n", "f", "i", "r", "m", "e", "d">>}, FALSE),
       Pattern("none", {<<"N", "e", "w", "s">>, <<"D", "a", "w", "n">>, <<"B", "B", "C">>, <<"C", "N", "N">>, <<"R", "e", "u", "t", "e", "r", "s">>,
                        <<"A", "P">>, <<"A", "F", "P">>, <<"B", "l", "o", "o", "m", "b", "e", "r", "g">>, <<"G", "u", "a", "r", "d", "i", "a", "n">>}, FALSE),
       Pattern("none", {<<"M", "o", "n", "d", "a", "y">>, <<"T", "u", "e", "s", "d", "a", "y">>, <<"W", "e", "d", "n", "e", "s", "d", "a", "y">>, <<"T", "h", "u", "r", "s", "d", "a", "y">>,
                        <<"F", "r", "i", "d", "a", "y">>, <<"S", "a", "t", "u", "r", "d", "a", "y">>, <<"S", "u", "n", "d", "a", "y">>}, FALSE),
       Pattern("none", {<<"T", "o", "d", "a", "y">>, <<"Y", "e", "s", "t", "e", "r", "d", "a", "y">>, <<"T", "o", "m", "o", "r", "r", "o", "w">>, <<"N", "o", "w">>,
                        <<"T", "h", "e", "n">>, <<"H", "e", "r", "e">>, <<"T", "h", "e", "r", "e">>}, FALSE),
       Pattern("none", {<<"M", "r">>, <<"M", "r", "s">>, <<"M", "s">>, <<"D", "r">>, <<"P", "r", "o", "f">>,
                        <<"P", "r", "e", "s", "i", "d", "e", "n", "t">>, <<"M", "i", "n", "i", "s", "t", "e", "r">>, <<"S", "e", "c", "r", "e", "t", "a", "r", "y">>}, TRUE),
       Pattern("digits", {<<"p", "e", "o", "p", "l", "e">>, <<"p", "e", "r", "s", "o", "n", "s">>, <<"c", "i", "v", "i", "l", "i", "a", "n", "s">>,
                          <<"r", "e", "s", "i", "d", "e", "n", "t", "s">>, <<"v", "i", "c", "t", "i", "m", "s">>}, FALSE),
       Pattern("none", {<<"B", "r", "e", "a", "k", "i", "n", "g">>, <<"L", "a", "t", "e", "s", "t">>, <<"U", "p", "d", "a", "t", "e">>, <<"R", "e", "p", "o", "r", "t">>,
                        <<"A", "n", "a", "l", "y", "s", "i", "s">>, <<"O", "p", "i", "n", "i", "o", "n">>}, FALSE) >>

\* What is left of s behind the lead of a pattern; "fail" when the lead
\* does not match.  The run of letters is at least two long ([A-Z] and
\* [a-z]+), the run of digits at least one, the run of spaces at least one.
NoMatch == <<"fail">>

AfterLead(lead, s) ==
    IF lead = "none" THEN <<"ok", s>>
    ELSE LET run == RunOf(s, IF lead = "word" THEN "letter" ELSE "digit")
             spaces == RunOf(Drop(s, run), "space")
         IN  IF run >= (IF lead = "word" THEN 2 ELSE 1) /\ spaces >= 1
             THEN <<"ok", Drop(s, run + spaces)>>
             ELSE NoMatch

\* re.match(pattern, location, re.IGNORECASE)
ReMatch(pattern, location) ==
    LET after == AfterLead(pattern.lead, location)
    IN  /\ after # NoMatch
        /\ \E word \in pattern.words :
              /\ StartsWith(Lower(after[2]), Lower(word))
              /\ pattern.then_space =>
                     /\ Len(after[2]) > Len(word)
                     /\ IsSpace(after[2][Len(word) + 1])

\* Lines 185-188: some pattern matches.
MatchesInvalidPattern(location) ==
    \E i \in DOMAIN InvalidLocationPatterns :
        ReMatch(InvalidLocationPatterns[i], location)

\* prefixes_to_remove, lines 191-194.
PrefixesToRemove ==
    << <<"A", "c", "c", "o", "r", "d", "i", "n", "g", " ", "t", "o">>, <<"H", "o", "w", "e", "v", "e", "r", ",">>, <<"M", "e", "a", "n", "w", "h", "i", "l", "e", ",">>, <<"T", "h", "e">>, <<"A">>,
       <<"A", "n">>, <<"B", "r", "e", "a", "k", "i", "n", "g", ":">>, <<"U", "p", "d", "a", "t", "e", ":">>, <<"L", "a", "t", "e", "s", "t", ":">>, <<"R", "e", "p", "o", "r", "t", ":">>,
       <<"N", "e", "w", "s", ":">> >>

\* Lines 196-198: the prefixes are tried one after the other on what the
\* earlier ones left.
RECURSIVE RemovePrefixesFrom(_, _)
RemovePrefixesFrom(location, i) ==
    IF i > Len(PrefixesToRemove) THEN location
    ELSE IF StartsWith(location, PrefixesToRemove[i])
         THEN RemovePrefixesFrom(
                  Strip(Drop(location, Len(PrefixesToRemove[i]))), i + 1)
         ELSE RemovePrefixesFrom(location, i + 1)

\* [a-zA-Z\s]+ over the whole of s
IsNameTail(s) ==
    s # <<>> /\ \A i \in DOMAIN s : IsLetter(s[i]) \/ IsSpace(s[i])

\* ^[A-Z][a-zA-Z\s]+$
IsSingleLocation(s) ==
    s # <<>> /\ IsUpper(s[1]) /\ IsNameTail(Tail(s))

\* _is_valid_location_format, lines 210-222: "City, Country" or a single
\* name.
IsValidLocationFormat(location) ==
    \/ \E k \in DOMAIN location :
          /\ location[k] = ","
          /\ IsSingleLocation(SubSeq(location, 1, k - 1))
          /\ IsSingleLocation(StripLeft(Drop(location, k)))
    \/ IsSingleLocation(location)

\* A cleaning that leaves out the check of the invalid patterns.
CleanLocationUnchecked(location) ==
    IF Strip(location) = <<>> THEN LocationTBD
    ELSE LET cut == RemovePrefixesFrom(Strip(location), 1)
         IN  IF Len(cut) < MinLocationLen \/ Len(cut) > MaxLocationLen
             THEN LocationTBD
             ELSE IF IsValidLocationFormat(cut) THEN cut ELSE LocationTBD

\* DataQualityEnhancer.clean_location, lines 177-208.
CleanLocation(location) ==
    IF location = <<>> \/ Strip(location) = <<>> THEN LocationTBD
    ELSE LET stripped == Strip(location)
         IN  IF MatchesInvalidPattern(stripped) THEN LocationTBD
             ELSE LET cut == RemovePrefixesFrom(stripped, 1)
                  IN  IF Len(cut) < MinLocationLen
                         \/ Len(cut) > MaxLocationLen
                      THEN LocationTBD
                      ELSE IF IsValidLocationFormat(cut) THEN cut
                           ELSE LocationTBD

\* location_coordinates, lines 91-143, in the order of the dict; latitude
\* and longitude are counted in ten-thousandths of a degree.
LocationCoordinates ==
    <<
        <<<<"N", "e", "w", " ", "Y", "o", "r", "k", ",", " ", "U", "S", "A">>, 407128, -740060>>,
        <<<<"L", "o", "n", "d", "o", "n", ",", " ", "U", "K">>, 515074, -1278>>,
        <<<<"T", "o", "k", "y", "o", ",", " ", "J", "a", "p", "a", "n">>, 356762, 1396503>>,
        <<<<"S", "e", "o", "u", "l", ",", " ", "S", "o", "u", "t", "h", " ", "K", "o", "r", "e", "a">>, 375665, 1269780>>,
        <<<<"B", "e", "i", "j", "i", "n", "g", ",", " ", "C", "h", "i", "n", "a">>, 399042, 1164074>>,
        <<<<"M", "o", "s", "c", "o", "w", ",", " ", "R", "u", "s", "s", "i", "a">>, 557558, 376176>>,
        <<<<"K", "i", "e", "v", ",", " ", "U", "k", "r", "a", "i", "n", "e">>, 504501, 305234>>,
        <<<<"I", "s", "t", "a", "n", "b", "u", "l", ",", " ", "T", "u", "r", "k", "e", "y">>, 410082, 289784>>,
        <<<<"T", "e", "h", "r", "a", "n", ",", " ", "I", "r", "a", "n">>, 356892, 513890>>,
        <<<<"D", "a", "m", "a", "s", "c", "u", "s", ",", " ", "S", "y", "r", "i", "a">>, 335138, 362765>>,
        <<<<"B", "a", "g", "h", "d", "a", "d", ",", " ", "I", "r", "a", "q">>, 333152, 443661>>,
        <<<<"K", "a", "b", "u", "l", ",", " ", "A", "f", "g", "h", "a", "n", "i", "s", "t", "a", "n">>, 345553, 692075>>,
        <<<<"I", "s", "l", "a", "m", "a", "b", "a", "d", ",", " ", "P", "a", "k", "i", "s", "t", "a", "n">>, 336844, 730479>>,
        <<<<"N", "e", "w", " ", "D", "e", "l", "h", "i", ",", " ", "I", "n", "d", "i", "a">>, 286139, 772090>>,
        <<<<"J", "a", "k", "a", "r", "t", "a", ",", " ", "I", "n", "d", "o", "n", "e", "s", "i", "a">>, -62088, 1068456>>,
        <<<<"M", "a", "n", "i", "l", "a", ",", " ", "P", "h", "i", "l", "i", "p", "p", "i", "n", "e", "s">>, 145995, 1209842>>,
        <<<<"B", "a", "n", "g", "k", "o", "k", ",", " ", "T", "h", "a", "i", "l", "a", "n", "d">>, 137563, 1005018>>,
        <<<<"Y", "a", "n", "g", "o", "n", ",", " ", "M", "y", "a", "n", "m", "a", "r">>, 168661, 961951>>,
        <<<<"D", "h", "a", "k", "a", ",", " ", "B", "a", "n", "g", "l", "a", "d", "e", "s", "h">>, 238103, 904125>>,
        <<<<"K", "a", "t", "h", "m", "a", "n", "d", "u", ",", " ", "N", "e", "p", "a", "l">>, 277172, 853240>>,
        <<<<"C", "o", "l", "o", "m", "b", "o", ",", " ", "S", "r", "i", " ", "L", "a", "n", "k", "a">>, 69271, 798612>>,
        <<<<"U", "k", "r", "a", "i", "n", "e">>, 504501, 305234>>,
        <<<<"R", "u", "s", "s", "i", "a">>, 557558, 376176>>,
        <<<<"S", "y", "r", "i", "a">>, 335138, 362765>>,
        <<<<"I", "r", "a", "q">>, 333152, 443661>>,
        <<<<"A", "f", "g", "h", "a", "n", "i", "s", "t", "a", "n">>, 345553, 692075>>,
        <<<<"P", "a", "k", "i", "s", "t", "a", "n">>, 336844, 730479>>,
        <<<<"I", "n", "d", "i", "a">>, 286139, 772090>>,
        <<<<"C", "h", "i", "n", "a">>, 399042, 1164074>>,
        <<<<"J", "a", "p", "a", "n">>, 356762, 1396503>>,
        <<<<"T", "u", "r", "k", "e", "y">>, 410082, 289784>>,
        <<<<"I", "r", "a", "n">>, 356892, 513890>>,
        <<<<"I", "s", "r", "a", "e", "l">>, 317683, 352137>>,
        <<<<"P", "a", "l", "e", "s", "t", "i", "n", "e">>, 319522, 352332>>,
        <<<<"L", "e", "b", "a", "n", "o", "n">>, 338547, 358623>>,
        <<<<"Y", "e", "m", "e", "n">>, 155527, 485164>>,
        <<<<"S", "u", "d", "a", "n">>, 155007, 325599>>,
        <<<<"E", "t", "h", "i", "o", "p", "i", "a">>, 91450, 404897>>,
        <<<<"M", "y", "a", "n", "m", "a", "r">>, 168661, 961951>>,
        <<<<"B", "a", "n", "g", "l", "a", "d", "e", "s", "h">>, 238103, 904125>>,
        <<<<"N", "e", "p", "a", "l">>, 277172, 853240>>,
        <<<<"S", "r", "i", " ", "L", "a", "n", "k", "a">>, 69271, 798612>>,
        <<<<"C", "a", "l", "i", "f", "o", "r", "n", "i", "a", ",", " ", "U", "S", "A">>, 367783, -1194179>>,
        <<<<"T", "e", "x", "a", "s", ",", " ", "U", "S", "A">>, 319686, -999018>>,
        <<<<"F", "l", "o", "r", "i", "d", "a", ",", " ", "U", "S", "A">>, 277663, -826404>>
    >>

LatLng(lat, lng) == [lat |-> lat, lng |-> lng]

\* loc_key.split(", ")
RECURSIVE SplitCommaFrom(_, _)
SplitCommaFrom(s, part) ==
    IF s = <<>> THEN <<part>>
    ELSE IF StartsWith(s, <<",", " ">>)
         THEN <<part>> \o SplitCommaFrom(Drop(s, 2), <<>>)
         ELSE SplitCommaFrom(Tail(s), Append(part, Head(s)))

SplitComma(s) == SplitCommaFrom(s, <<>>)

\* Lines 235-236: some part of the key is in the location.
PartialMatch(loc_key, location_lower) ==
    \E part \in Range(SplitComma(loc_key)) :
        Contains(location_lower, Lower(part))

\* DataQualityEnhancer.get_coordinates, lines 224-241.
GetCoordinates(location) ==
    IF location = LocationTBD \/ location = <<>> THEN LatLng(0, 0)
    ELSE IF \E i \in DOMAIN LocationCoordinates :
               LocationCoordinates[i][1] = location
         THEN LET i == CHOOSE i \in DOMAIN LocationCoordinates :
                           LocationCoordinates[i][1] = location
              IN  LatLng(LocationCoordinates[i][2], LocationCoordinates[i][3])
         ELSE LET hits == {i \in DOMAIN LocationCoordinates :
                              PartialMatch(LocationCoordinates[i][1],
                                           Lower(location))}
              IN  IF hits = {} THEN LatLng(0, 0)
                  ELSE LET i == CHOOSE i \in hits : \A j \in hits : i <= j
                       IN  LatLng(LocationCoordinates[i][2],
                                  LocationCoordinates[i][3])

\* The locations given to clean_location: a first word, a separator, a
\* rest, with or without blanks around them.
LocationHeads ==
    { <<"S", "h", "e">>, <<"s", "h", "e">>, <<"T", "h", "e">>, <<"A">>, <<"H", "o", "w", "e", "v", "e", "r">>, <<"M", "r", "s">>, <<"P", "r", "e", "s", "i", "d", "e", "n", "t">>,
      <<"T", "o", "k", "y", "o">>, <<"O", "s", "a", "k", "a">>, <<"B", "B", "C">>, <<"M", "a", "y">>, <<"M", "o", "n", "d", "a", "y">>, <<"T", "o", "d", "a", "y">>,
      <<"B", "r", "e", "a", "k", "i", "n", "g">>, <<"1", "2">>, <<"O", "f", "f", "i", "c", "i", "a", "l", "s">> }

LocationRests ==
    { <<>>, <<"s", "a", "i", "d">>, <<"H", "a", "g", "u", "e">>, <<",", " ", "J", "a", "p", "a", "n">>, <<"p", "e", "o", "p", "l", "e">>, <<"K", "o", "r", "e", "a">> }

Blanks == { <<>>, <<" ">> }

LocationInputs ==
    { <<>> } \cup
    { lead \o head \o mid \o rest \o trail :
          lead \in Blanks, head \in LocationHeads, mid \in Blanks,
          rest \in LocationRests, trail \in Blanks }

\* The keys of location_coordinates, lines 91-143.
GazetteerKeys ==
    {LocationCoordinates[i][1] : i \in DOMAIN LocationCoordinates}

\* The coordinates of the entry of a key.
EntryOf(name) ==
    LET i == CHOOSE i \in DOMAIN LocationCoordinates :
                  LocationCoordinates[i][1] = name
    IN  LatLng(LocationCoordinates[i][2], LocationCoordinates[i][3])

InitQual ==
    /\ qualPc = "idle"
    /\ qualInput = <<>>
    /\ qualLocation = <<>>
    /\ qualCoords = LatLng(0, 0)

\* clean_location is called on a location.
CallCleanLocation ==
    /\ qualPc = "idle"
    /\ \E location \in LocationInputs \cup GazetteerKeys :
          /\ qualInput' = location
          /\ qualLocation' = CleanLocation(location)
    /\ qualPc' = "cleaned"
    /\ op' = "clean_location"
    /\ UNCHANGED <<clock, qualCoords, outsideQual>>

\* get_coordinates is called on what clean_location returned.
CallGetCoordinates ==
    /\ qualPc = "cleaned"
    /\ qualCoords' = GetCoordinates(qualLocation)
    /\ qualPc' = "located"
    /\ op' = "get_coordinates"
    /\ UNCHANGED <<clock, qualInput, qualLocation, outsideQual>>

NextQual ==
    \/ CallCleanLocation
    \/ CallGetCoordinates

C29_GazetteerFixpoint ==
    (qualPc # "idle" /\ qualInput \in GazetteerKeys) =>
        /\ qualLocation = qualInput
        /\ qualPc = "located" => qualCoords = EntryOf(qualInput)

----------------------------------------------------------------------------
(* The refresh time on disk: cache_manager.py                                *)

\* SimpleDisasterCache.should_update, lines 170-176, at time now of a cache
\* whose last_update is t.
ShouldUpdate(t, interval_minutes, now) ==
    IF t = NoTime THEN TRUE ELSE now - t > interval_minutes * 60

IntervalMinutes == {0, 10}

\* C21 (persisted refresh time): right after update_cache has returned, the
\* last_update of the metadata document is the last_update of the cache in
\* memory, and a cache loaded from the documents answers should_update as
\* the running cache does, whatever the interval.
C21_PersistedRefreshTime ==
    op = "update_cache" =>
        /\ meta_file.last_update = last_update
        /\ \A interval_minutes \in IntervalMinutes :
               ShouldUpdate(meta_file.last_update, interval_minutes, clock)
                   = ShouldUpdate(last_update, interval_minutes, clock)

----------------------------------------------------------------------------
(* The API server: startup, refresh, search and the blockchain endpoints     *)
(* of main.py                                                                *)

\* The callers that fill the cache with what get_initial_disasters returned.
BootCallers == {"startup", "force_refresh"}

\* startup_event, lines 88-95, and force_refresh, lines 199-203, once the
\* collection has returned fresh_disasters.  The caches the model builds
\* hold fewer than 50 records, so the startup always fetches.  force_refresh
\* clears the list first; the startup then reads current_disasters.  A
\* cache left empty is read again from the file just written, which holds
\* the same empty list.
StoreFresh(caller, fresh_disasters) ==
    /\ UpdateCacheOn(IF caller = "force_refresh" THEN <<>> ELSE memory_cache,
                     fresh_disasters, "ok", FALSE)
    /\ current_disasters' =
           IF caller = "startup"
           THEN SortByTimestampDesc(
                    Filtered(memory_cache', RetentionDays, clock))
           ELSE current_disasters
    /\ bootCaller' = caller
    /\ bootPc' = "done"

NoRequest == [endpoint |-> "none", id |-> "none", available |-> TRUE]
NoResponse == [status |-> 0, detail |-> "none"]
Response(status, detail) == [status |-> status, detail |-> detail]

InitApi ==
    /\ bootPc = "idle"
    /\ bootCaller = "none"
    /\ current_disasters = <<>>
    /\ searchIds = {}
    /\ apiRequest = NoRequest
    /\ apiResponse = NoResponse
    /\ uploaderMade = FALSE

\* ---- the refresh, with the collection followed step by step ----

\* startup_event up to line 90, or force_refresh up to line 197: the
\* collection is awaited.
BootBegins ==
    /\ bootPc = "idle"
    /\ aggPc = "idle"
    /\ \E caller \in BootCallers : bootCaller' = caller
    /\ bootPc' = "collecting"
    /\ op' = "boot_begins"
    /\ UNCHANGED <<clock, current_disasters, searchIds, apiRequest,
                   apiResponse, uploaderMade, outsideApi>>

\* get_initial_disasters(days=7) runs.
BootCollects ==
    /\ bootPc = "collecting"
    /\ aggDays' = RetentionDays
    /\ \/ StartCollection
       \/ AdapterFinishes
       \/ StartAiGather
       \/ MergeFilterDedup
       \/ EnhanceNext
       \/ ReturnSorted

\* The collection has returned; its list goes to update_cache.
BootStores ==
    /\ bootPc = "collecting"
    /\ aggPc = "done"
    /\ StoreFresh(bootCaller, aggOut)
    /\ op' = "boot_stores"
    /\ UNCHANGED <<clock, searchIds, apiRequest, apiResponse, uploaderMade,
                   outsideCacheApi>>

NextBoot ==
    \/ BootBegins
    \/ BootCollects
    \/ BootStores

\* ---- the endpoints, with the collection taken as one step ----

\* What get_initial_disasters hands to its caller: feed records, nothing, or
\* the placeholder.
ApiFresh(now) ==
    { <<>>, <<Usgs1>>, <<News1, Usgs1>>, FallbackData(now) }

\* startup_event, lines 81-97.
StartupEvent ==
    /\ bootPc = "idle"
    /\ \E fresh_disasters \in ApiFresh(clock) :
          StoreFresh("startup", fresh_disasters)
    /\ op' = "startup_event"
    /\ UNCHANGED <<clock, searchIds, apiRequest, apiResponse, uploaderMade,
                   outsideCacheApi>>

\* SimpleDisasterCache.force_refresh, lines 189-206, of the running server;
\* the first one after the start is followed.
ForceRefresh ==
    /\ bootPc = "done"
    /\ bootCaller = "startup"
    /\ \E fresh_disasters \in ApiFresh(clock) :
          StoreFresh("force_refresh", fresh_disasters)
    /\ op' = "force_refresh"
    /\ UNCHANGED <<clock, searchIds, apiRequest, apiResponse, uploaderMade,
                   outsideCacheApi>>

\* GET /api/initial-load, load_initial_disasters, lines 689-695.
LoadInitialDisasters ==
    /\ bootPc = "done"
    /\ IF memory_cache = <<>>
       THEN LoadFromFile
       ELSE UNCHANGED <<memory_cache, last_update>>
    /\ current_disasters' =
           SortByTimestampDesc(Filtered(memory_cache', RetentionDays, clock))
    /\ apiRequest' = [endpoint |-> "initial-load", id |-> "none",
                      available |-> TRUE]
    /\ apiResponse' = Response(200, "ok")
    /\ op' = "initial_load"
    /\ UNCHANGED <<clock, cache_file, meta_file, lastBatch, lastAdded,
                   repeated, prevCache, firstCutoff, bootPc, bootCaller,
                   searchIds, uploaderMade, outsideCacheApi>>

\* POST /api/search, search_disasters, lines 728-767: search_engine has
\* returned; the ids of its records go to the dashboard.
PostSearch ==
    /\ bootPc = "done"
    /\ searchPc = "done"
    /\ searchIds' = IdsOf(searchOut.items)
    /\ apiRequest' = [endpoint |-> "search", id |-> "none",
                      available |-> TRUE]
    /\ apiResponse' = Response(200, "ok")
    /\ op' = "post_search"
    /\ UNCHANGED <<clock, bootPc, bootCaller, current_disasters,
                   uploaderMade, outsideApi>>

\* HybridDisasterEngine.search_disasters runs for POST /api/search, with
\* the largest max_results of the model.
ApiSearches ==
    /\ bootPc = "done"
    /\ max_results' = MaxResults
    /\ \/ StartSearch
       \/ LegacySearchReturns
       \/ AiQueryReturns
       \/ MergeSearch
       \/ EnhanceSearchNext
       \/ ReturnSearch

\* The ids a client asks for: ids it was given, and one nobody has.
RequestIds == searchIds \cup IdsOf(current_disasters) \cup {"unknown_id"}

\* for d in current_disasters: if d.id == disaster_id, lines 966-970 and
\* 995-999.
Found(disaster_id) == disaster_id \in IdsOf(current_disasters)

\* GET /api/disaster/{id}/blockchain, lines 962-982: HTTPException is raised
\* again as it is, any other exception becomes a 500.
GetDisasterBlockchain ==
    /\ bootPc = "done"
    /\ \E disaster_id \in RequestIds, generate \in {"ok", "raises"} :
          /\ apiRequest' = [endpoint |-> "blockchain", id |-> disaster_id,
                            available |-> TRUE]
          /\ apiResponse' =
                 IF ~Found(disaster_id)
                 THEN Response(404, "Disaster not found")
                 ELSE IF generate = "ok" THEN Response(200, "ok")
                      ELSE Response(500, "error")
    /\ uploaderMade' = FALSE
    /\ op' = "get_blockchain"
    /\ UNCHANGED <<clock, bootPc, bootCaller, current_disasters, searchIds,
                   outsideApi>>

\* POST /api/disaster/{id}/upload-chain, lines 984-1018: the HTTPException
\* of line 1001 is raised inside the try and caught by except Exception at
\* line 1012.
UploadAnswer(available, found, upload) ==
    IF ~available THEN Response(200, "MODULE_NOT_AVAILABLE")
    ELSE IF ~found THEN Response(500, "UNKNOWN_ERROR")
    ELSE CASE upload = "success" -> Response(200, "ok")
           [] upload = "failure" -> Response(400, "upload failed")
           [] OTHER -> Response(500, "UNKNOWN_ERROR")

UploadDisasterToChain ==
    /\ bootPc = "done"
    /\ \E disaster_id \in RequestIds, available \in BOOLEAN,
          upload \in {"success", "failure", "raises"} :
          /\ apiRequest' = [endpoint |-> "upload-chain", id |-> disaster_id,
                            available |-> available]
          /\ apiResponse' = UploadAnswer(available, Found(disaster_id), upload)
          /\ uploaderMade' = (available /\ Found(disaster_id))
    /\ op' = "upload_chain"
    /\ UNCHANGED <<clock, bootPc, bootCaller, current_disasters, searchIds,
                   outsideApi>>

NextApi ==
    \/ StartupEvent
    \/ ForceRefresh
    \/ LoadInitialDisasters
    \/ ApiSearches
    \/ PostSearch
    \/ GetDisasterBlockchain
    \/ UploadDisasterToChain

\* The placeholder of _get_fallback_data.
IsPlaceholder(d) == d.id = "hybrid_fallback_001" \/ d.source = "Hybrid-System"

\* C22 (no synthetic records in the cache): after the startup refresh or
\* force_refresh, no record of the cache in memory or of the persisted
\* snapshot is the engine's placeholder, also when the collection failed.
C22_NoSyntheticRecords ==
    bootPc = "done" =>
        /\ \A i \in DOMAIN memory_cache : ~IsPlaceholder(memory_cache[i])
        /\ \A i \in DOMAIN cache_file.disasters :
               ~IsPlaceholder(cache_file.disasters[i])

\* C25 (exportable search results): the export of an id that POST
\* /api/search has returned does not answer 404.
C25_ExportableSearchResults ==
    (apiRequest.endpoint = "blockchain" /\ apiRequest.id \in searchIds) =>
        apiResponse.status # 404

\* C27 (upload of an unknown id): with the blockchain module available, the
\* upload of an id that is not in current_disasters answers 404 "Disaster
\* not found" and constructs no uploader.
C27_UploadUnknownId ==
    (/\ apiRequest.endpoint = "upload-chain"
     /\ apiRequest.available
     /\ ~Found(apiRequest.id)) =>
        /\ apiResponse = Response(404, "Disaster not found")
        /\ ~uploaderMade

----------------------------------------------------------------------------
(* Reads of the cache while force_refresh runs: cache_manager.py             *)

\* update_cache, force_refresh and get_disasters on one cache.  The
\* coroutines run on one event loop and change hands only at an await that
\* suspends: force_refresh suspends at line 197 only, since update_cache
\* and _save_to_file hold no such await; get_disasters does not suspend.
NextReads ==
    \/ PersistUpdateCache
    \/ ForceRefreshBegins
    \/ ForceRefreshCompletes
    \/ GetDisasters
    \/ Tick

Collecting == \E c \in ForceCallers : forcePc[c] = "collecting"

\* C23 (reads during force_refresh): a get_disasters call made while a
\* force_refresh is collecting returns the records of the list as it was
\* before that force_refresh, inside the window and newest first, and leaves
\* the list as it is; the step that begins the collection does not change
\* the list, which is replaced only by the step that follows the collection.
C23_ReadsDuringForceRefresh ==
    [][/\ (Collecting /\ op' = "get_disasters") =>
              /\ getOut' = SortByTimestampDesc(
                               Filtered(memory_cache, getDays', clock))
              /\ memory_cache' = memory_cache
       /\ (op' = "force_refresh_begins") => memory_cache' = memory_cache
       /\ (memory_cache' # memory_cache) =>
              op' \in {"force_refresh", "update_cache"}]_vars

\* A read during a collection returned records.
C23_Witness ==
    /\ op = "get_disasters"
    /\ Collecting
    /\ getOut # <<>>
    /\ getOut = SortByTimestampDesc(Filtered(memory_cache, getDays, clock))

----------------------------------------------------------------------------
(* The chat protocol handler of hosted_disaster_agent_v2.py                  *)

\* The chat messages the agent receives while the model runs.
MaxMessages == 2

Messages == 1 .. MaxMessages

Senders == {"agent1qalice", "agent1qbob"}

\* The msg_id of the m-th message received and the uuid4() of the reply to
\* it: every identifier is drawn once.
MsgId(m) == m
Uuid4(m) == MaxMessages + 1 + m

TextContent(text) == [type |-> "text", text |-> text]
EndSessionContent == [type |-> "end-session", text |-> <<>>]
StartSessionContent == [type |-> "start-session", text |-> <<>>]

\* The contents of the received messages: one text, or two texts after a
\* session item.
ChatContents ==
    {<<TextContent(<<"s", "t", "a", "t", "u", "s">>)>>,
     <<StartSessionContent, TextContent(<<"A", "n", "y", " ">>), TextContent(<<"F", "L", "O", "O", "D", "?">>)>>}

\* handle_message, lines 396-399: the texts of the TextContent items, joined.
RECURSIVE ExtractText(_)
ExtractText(content) ==
    IF content = <<>> THEN <<>>
    ELSE (IF content[1].type = "text" THEN content[1].text ELSE <<>>)
             \o ExtractText(Tail(content))

\* generate_disaster_response, lines 431-436 and 439, 524.
ChatDisasterKeywords ==
    {<<"e", "a", "r", "t", "h", "q", "u", "a", "k", "e">>, <<"f", "l", "o", "o", "d">>, <<"f", "i", "r", "e">>, <<"d", "i", "s", "a", "s", "t", "e", "r">>, <<"e", "m", "e", "r", "g", "e", "n", "c", "y">>,
     <<"c", "r", "i", "s", "i", "s">>, <<"j", "a", "p", "a", "n">>, <<"c", "a", "l", "i", "f", "o", "r", "n", "i", "a">>, <<"t", "s", "u", "n", "a", "m", "i">>, <<"h", "u", "r", "r", "i", "c", "a", "n", "e">>,
     <<"t", "y", "p", "h", "o", "o", "n">>, <<"v", "o", "l", "c", "a", "n", "o">>, <<"c", "o", "n", "f", "l", "i", "c", "t">>, <<"w", "a", "r">>, <<"a", "t", "t", "a", "c", "k">>,
     <<"w", "i", "l", "d", "f", "i", "r", "e">>, <<"f", "l", "o", "o", "d", "i", "n", "g">>, <<"s", "e", "i", "s", "m", "i", "c">>, <<"U+C9C0", "U+C9C4">>, <<"U+D64D", "U+C218">>, <<"U+C7AC", "U+D574">>,
     <<"U+C7AC", "U+B09C">>, <<"U+C77C", "U+BCF8">>, <<"U+BBF8", "U+AD6D">>, <<"U+D0DC", "U+D48D">>, <<"U+C0B0", "U+BD88">>, <<"U+BD84", "U+C7C1">>}

ChatStatusWords ==
    {<<"s", "t", "a", "t", "u", "s">>, <<"h", "e", "a", "l", "t", "h">>, <<"i", "n", "f", "o">>, <<"a", "b", "o", "u", "t">>, <<"U+C0C1", "U+D0DC">>, <<"U+C815", "U+BCF4">>}

ChatHelpWords ==
    {<<"h", "e", "l", "p">>, <<"h", "o", "w">>, <<"w", "h", "a", "t", " ", "c", "a", "n">>, <<"c", "o", "m", "m", "a", "n", "d", "s">>, <<"U+B3C4", "U+C6C0">>, <<"U+BA85", "U+B839", "U+C5B4">>}

AnyIn(words, text_lower) == \E word \in words : Contains(text_lower, word)

\* generate_disaster_response, lines 421-573, by the text it returns: the
\* status report, the list of the disasters found, the "No disasters found"
\* text, the help, the greeting, or, when a statement of the body raises,
\* the apology of the except clause of lines 571-573.  A text is written
\* by a word of its first line.
\* found: search_disasters_by_query returned a non-empty list.
GenerateDisasterResponse(text, found, raises) ==
    LET text_lower == Lower(text) IN
    IF raises THEN <<"S", "o", "r", "r", "y">>
    ELSE IF AnyIn(ChatStatusWords, text_lower) THEN <<"S", "t", "a", "t", "u", "s">>
    ELSE IF AnyIn(ChatDisasterKeywords, text_lower)
         THEN (IF found THEN <<"F", "o", "u", "n", "d">> ELSE <<"N", "o", " ", "d", "i", "s", "a", "s", "t", "e", "r", "s", " ", "f", "o", "u", "n", "d">>)
    ELSE IF AnyIn(ChatHelpWords, text_lower) THEN <<"A", "g", "e", "n", "t">>
    ELSE <<"H", "e", "l", "l", "o">>

\* The response to each content a message can carry, computed once.
ResponseTexts ==
    [content \in ChatContents |->
        [found \in BOOLEAN |->
            [raises \in BOOLEAN |->
                GenerateDisasterResponse(ExtractText(content), found, raises)]]]

\* A reply that does not close the session.
ReplyContentOpen(response_text) == <<TextContent(response_text)>>

\* handle_message, lines 409-412: the content of the reply.
ReplyContent(response_text) ==
    <<TextContent(response_text), EndSessionContent>>

\* ctx.send(destination, message): the envelope handed to the transport,
\* with the invocation of the handler that sent it.
Envelope(handler, destination, message) ==
    [handler |-> handler, destination |-> destination, message |-> message]

ChatAcknowledgement(acknowledged_msg_id) ==
    [kind |-> "acknowledgement", id |-> acknowledged_msg_id, content |-> <<>>]

ChatMessage(msg_id, content) ==
    [kind |-> "message", id |-> msg_id, content |-> content]

NoMessage == [sender |-> "none", msg |-> ChatMessage(0, <<>>)]

InitChat ==
    /\ chatPc = [m \in Messages |-> "unsent"]
    /\ chatIn = [m \in Messages |-> NoMessage]
    /\ chatText = [m \in Messages |-> <<>>]
    /\ outbox = <<>>
    /\ search_count = 0

\* handle_message, lines 381-391: the message is received, counted and
\* acknowledged.  The messages are numbered in the order of their arrival.
HandleMessage(m) ==
    /\ chatPc[m] = "unsent"
    /\ \A k \in Messages : k < m => chatPc[k] # "unsent"
    /\ \E sender \in Senders, content \in ChatContents :
        /\ chatIn' = [chatIn EXCEPT
                          ![m] = [sender |-> sender,
                                  msg |-> ChatMessage(MsgId(m), content)]]
        /\ outbox' = Append(outbox,
                            Envelope(m, sender, ChatAcknowledgement(MsgId(m))))
    /\ search_count' = search_count + 1
    /\ chatPc' = [chatPc EXCEPT ![m] = "acknowledged"]
    /\ op' = "handle_message"
    /\ UNCHANGED <<clock, outsideChat, chatText>>

\* generate_disaster_response, lines 427-428: the data is older than an hour
\* and the handler waits for refresh_disaster_data, which catches what its
\* request raises (lines 353-375).
AwaitRefresh(m) ==
    /\ chatPc[m] = "acknowledged"
    /\ chatPc' = [chatPc EXCEPT ![m] = "refreshing"]
    /\ op' = "await_refresh"
    /\ UNCHANGED <<clock, outsideChat, chatIn, chatText, outbox, search_count>>

\* handle_message, lines 393-403: the text is extracted and the response is
\* built, at once when the data is fresh, else after the refresh.
BuildResponse(m) ==
    /\ chatPc[m] \in {"acknowledged", "refreshing"}
    /\ \E found \in BOOLEAN, raises \in BOOLEAN :
        chatText' = [chatText EXCEPT
                         ![m] = ResponseTexts[chatIn[m].msg.content][found][raises]]
    /\ chatPc' = [chatPc EXCEPT ![m] = "built"]
    /\ op' = "build_response"
    /\ UNCHANGED <<clock, outsideChat, chatIn, outbox, search_count>>

\* handle_message, lines 406-414: the reply is sent and the handler returns.
SendResponse(m) ==
    /\ chatPc[m] = "built"
    /\ outbox' = Append(outbox,
                        Envelope(m, chatIn[m].sender,
                                 ChatMessage(Uuid4(m),
                                             ReplyContent(chatText[m]))))
    /\ chatPc' = [chatPc EXCEPT ![m] = "done"]
    /\ op' = "send_response"
    /\ UNCHANGED <<clock, outsideChat, chatIn, chatText, search_count>>

HandlerStep(m) == AwaitRefresh(m) \/ BuildResponse(m) \/ SendResponse(m)

NextChat == \E m \in Messages : HandleMessage(m) \/ HandlerStep(m)

\* What the handler of message m has sent, by position in the outbox.
SentBy(m, kind) ==
    {i \in DOMAIN outbox :
         outbox[i].handler = m /\ outbox[i].message.kind = kind}

AcknowledgedOnce(m) ==
    /\ Cardinality(SentBy(m, "acknowledgement")) = 1
    /\ \A i \in SentBy(m, "acknowledgement") :
           /\ outbox[i].destination = chatIn[m].sender
           /\ outbox[i].message.id = chatIn[m].msg.id

RepliedOnce(m) ==
    /\ Cardinality(SentBy(m, "message")) = 1
    /\ \A i \in SentBy(m, "message") :
           /\ outbox[i].destination = chatIn[m].sender
           /\ outbox[i].message.content # <<>>
           /\ outbox[i].message.content[Len(outbox[i].message.content)]
                  = EndSessionContent
           /\ \A j \in SentBy(m, "acknowledgement") : j < i

\* At every moment: a received message has its one acknowledgement, and
\* whatever reply has been sent is the only one, closes the session and
\* follows the acknowledgement.
ChatOrder(m) ==
    /\ chatPc[m] = "unsent" => SentBy(m, "acknowledgement") = {}
                                   /\ SentBy(m, "message") = {}
    /\ chatPc[m] # "unsent" => AcknowledgedOnce(m)
    /\ SentBy(m, "message") # {} => RepliedOnce(m)
    /\ chatPc[m] = "done" => RepliedOnce(m)

\* C24: every ChatMessage received is answered to its sender by exactly one
\* ChatAcknowledgement carrying its msg_id and, after it, by exactly one
\* ChatMessage whose content ends with EndSessionContent, also when the
\* response could not be built and the apology is sent instead.
C24_ChatProtocolReply ==
    /\ [](\A m \in Messages : ChatOrder(m))
    /\ \A m \in Messages :
           (chatPc[m] # "unsent") ~> (chatPc[m] = "done" /\ RepliedOnce(m))

\* A message whose response raised has been acknowledged and then answered.
C24_Witness ==
    \E m \in Messages :
        /\ chatPc[m] = "done"
        /\ chatText[m] = <<"S", "o", "r", "r", "y">>
        /\ AcknowledgedOnce(m)
        /\ RepliedOnce(m)
        /\ \E k \in Messages : k # m /\ chatPc[k] = "acknowledged"

----------------------------------------------------------------------------
(* The coordinate enhancement of hybrid_search.py, one call at a time        *)

\* Coordinates on the equator and on the prime meridian.
EquatorCoords == [present |-> TRUE, lat |-> 0, lng |-> 101]
MeridianCoords == [present |-> TRUE, lat |-> 51, lng |-> 0]

\* The records handed to _enhance_disaster_with_coordinates: every kind of
\* coordinates with a place name, a placeholder or no location.
EnhanceInputs ==
    {DisasterInfo("usgs_1", QuakeTitle, location, DayTs, "USGS", coordinates) :
         location \in {Tokyo, LocationTBD, UnknownLocation, <<>>},
         coordinates \in {NoCoords, ZeroCoords, FeedCoords, EquatorCoords,
                          MeridianCoords}}

\* _enhance_disaster_with_coordinates, lines 178-212: the calls it awaits,
\* in order.
EnhanceCalls(d, ext) ==
    IF HasValidCoordinates(d) THEN <<>>
    ELSE LET extracts == d.location \in {LocationTBD, UnknownLocation, <<>>}
             location == EnhanceWithCoordinates(d, ext).location
         IN  (IF extracts THEN <<"_ai_extract_location">> ELSE <<>>)
                 \o (IF location = LocationTBD THEN <<>>
                     ELSE IF ext.geocode = "none"
                          THEN <<"_geocode_location",
                                 "_ai_estimate_coordinates">>
                          ELSE <<"_geocode_location">>)

InitEnh ==
    /\ enhPc = "idle"
    /\ enhIn = Ai1
    /\ enhOut = Ai1
    /\ enhCalls = <<>>

\* The enhancement is called with a record.
EnhanceCalled ==
    /\ enhPc = "idle"
    /\ \E d \in EnhanceInputs : enhIn' = d
    /\ enhPc' = "called"
    /\ op' = "enhance_called"
    /\ UNCHANGED <<clock, outsideEnh, enhOut, enhCalls>>

\* It returns, after the calls it made have answered.
EnhanceReturns ==
    /\ enhPc = "called"
    /\ \E ext \in EnhanceOutcomes :
        /\ enhOut' = EnhanceWithCoordinates(enhIn, ext)
        /\ enhCalls' = EnhanceCalls(enhIn, ext)
    /\ enhPc' = "returned"
    /\ op' = "enhance_returns"
    /\ UNCHANGED <<clock, outsideEnh, enhIn>>

NextEnh == EnhanceCalled \/ EnhanceReturns

\* C28: a record whose coordinates are present and are not (0,0) is returned
\* as it came, and no location extraction, geocoding or estimate was called.
C28_EnhancementFrame ==
    (enhPc = "returned" /\ enhIn.coordinates.present
        /\ ~(enhIn.coordinates.lat = 0 /\ enhIn.coordinates.lng = 0)) =>
        /\ enhOut = enhIn
        /\ enhCalls = <<>>

----------------------------------------------------------------------------
(* Specifications *)

Init ==
    /\ clock = ClockStart
    /\ op = "init"
    /\ InitCache
    /\ InitDedup
    /\ InitAgg
    /\ InitSearch
    /\ InitRefresh
    /\ InitScore
    /\ InitPersist
    /\ InitPipe
    /\ InitLlm
    /\ InitSev
    /\ InitQual
    /\ InitApi
    /\ InitChat
    /\ InitEnh

SpecCache == Init /\ [][NextCache]_vars

SpecDedup == Init /\ [][NextDedup]_vars

SpecAgg == Init /\ [][NextAgg]_vars

SpecSearch == Init /\ [][NextSearch]_vars

SpecRefresh == Init /\ [][NextRefresh]_vars

SpecScore == Init /\ [][NextScore]_vars

SpecPersist == Init /\ [][NextPersist]_vars

SpecPipe == Init /\ [][NextPipe]_vars

SpecLlm == Init /\ [][NextLlm]_vars

SpecSev == Init /\ [][NextSev]_vars

SpecQual == Init /\ [][NextQual]_vars

SpecApi == Init /\ [][NextApi]_vars
SpecBoot == Init /\ [][NextBoot]_vars

SpecReads == Init /\ [][NextReads]_vars

SpecChat == Init /\ [][NextChat]_vars

\* The event loop resumes every handler whose awaited call has returned: the
\* sends complete, and the refresh request ends with its answer or with the
\* timeout of its session.
SpecChatFair == SpecChat /\ \A m \in Messages : WF_vars(HandlerStep(m))

SpecEnh == Init /\ [][NextEnh]_vars

====
